---- MODULE Spec2Model ----
(***************************************************************************)
(* Model of the voiranime source plugin (extension/sources/voiranime.js)   *)
(* and of the extension's message dispatcher (extension/background.js):    *)
(* the Jikan admission gate, the two-tier cover cache, the video URL       *)
(* resolver, the catalog operations, handleAction, and of the message      *)
(* relay between the page and the extension.                              *)
(*                                                                         *)
(* Each component has its own specification over the shared variables:     *)
(*   SpecGate      _jikanAcquire / _jikanRelease                           *)
(*   SpecCache     _cacheGet / _cacheSet / _dbSet                          *)
(*   SpecVideo     getVideoUrl and its helpers                             *)
(*   SpecEpisodes  getEpisodes                                             *)
(*   SpecCover     _fetchCoverForAnime / _fetchCoverByQuery                *)
(*   SpecSearch    search and its fallback                                 *)
(*   SpecCatalog   search or getLatestEpisodes                             *)
(*   SpecOps       one of the five operations of the source                *)
(*   SpecAction    handleAction and the cover patches it pushes            *)
(*   SpecNumber    _extractEpisodeNumber                                   *)
(*   SpecMatch     _bestJikanMatch                                         *)
(*   SpecGateLive  the gate, its timers firing and its calls going on      *)
(*   SpecEnrich    enrichCoversAsync                                       *)
(*   SpecRelay     extRequest and the content script's relay               *)
(* Variables of the other components keep their initial value.            *)
(***************************************************************************)
EXTENDS Integers, Sequences, FiniteSets, TLC

None == "none"

(***************************************************************************)
(* Program constants                                                       *)
(***************************************************************************)
JIKAN_CONCURRENCY == 3
JIKAN_DELAY_MS == 200
POLL_MS == 50
COVER_ERROR_TTL == 10000
COVER_TTL == 86400000 * 7
HOST_PRIORITY == <<"vidmoly", "voe", "f16px", "streamtape", "mail.ru">>

(***************************************************************************)
(* Bounds of the model                                                     *)
(***************************************************************************)
\* Date.now() when the model starts; _jikanLastStart is still 0 then.
StartNow == 1000
\* Number of concurrent callers of _jikanAcquire.
NumCallers == 4
\* Number of POLL_MS clock steps explored by the gate.
GateSteps == 6
\* Number of concurrent readers of the cover cache.
NumReaders == 1
\* Number of clock steps explored by the cover cache.
MaxTicks == 3
\* Number of entries of the embedded source table of an episode page.
MaxTable == 2
\* Number of iframe tags in an episode page body or a reading-content answer.
MaxIframes == 2
\* Number of chapter items of an anime page.
MaxChapters == 3
\* Largest episode number on an anime page.
MaxEpisodeNumber == 3
\* Number of Jikan search terms of an anime.
MaxTerms == 4
\* Number of successive cover lookups of the anime.
MaxLookups == 2
\* Number of anime links in a search result page.
MaxLinks == 2
\* Number of cards on the homepage.
MaxCards == 2
\* Number of messages handleAction receives.
MaxMessages == 2
\* Number of tokens of a link text.
MaxTokens == 3
\* Number of items of a Jikan answer.
MaxItems == 3
\* Results passed to one enrichCoversAsync call.
MaxResults == 3
\* extRequest calls of the page, and the ids randomUUID draws from.
NumRequests == 2

NumUuids == 3

VARIABLES
  now,            \* Date.now()
  jikanInFlight,  \* _jikanInFlight
  jikanLastStart, \* _jikanLastStart
  gpc,            \* position of each caller in _jikanAcquire / its call
  gwake,          \* due time of the caller's pending setTimeout
  prevStart,      \* history: _jikanLastStart before the latest grant
  nGrants,        \* history: number of grants so far, counted up to 2
  gacq,           \* history: number of times each caller was admitted
  grel            \* history: number of times each caller released

gateHist == <<gacq, grel>>

gateVars == <<jikanInFlight, jikanLastStart, gpc, gwake, prevStart, nGrants, gateHist>>

VARIABLES
  memCache,    \* _memCache: key -> entry or None
  db,          \* the IndexedDB store "covers": key -> entry or None
  dbPending,   \* _dbSet calls that have not reached their put yet
  rpc,         \* position of each caller of _cacheGet
  rkey,        \* the key it reads
  rret,        \* the value _cacheGet returned to it
  rcase,       \* history: what _memCache[key] held when it entered _cacheGet
  seen,        \* history: the classes of entry reads have met and answered
  rafter,      \* history: it entered after a restart, the key's last result a miss
  missLast,    \* history: the last _cacheSet of the key stored an empty cover
  written,     \* history: the key was written since the last restart
  cticks       \* clock steps taken

readVars == <<rpc, rkey, rret, rcase, seen, rafter>>

writeHist == <<missLast, written>>

cacheVars == <<memCache, db, dbPending, readVars, writeHist, cticks>>

VARIABLES
  vpc,       \* position of the getVideoUrl call
  vpage,     \* html of the episode page
  vsources,  \* sources: the candidates _parseChapterSources returned
  vidx,      \* index of the candidate being resolved
  vresult,   \* what getVideoUrl returned or threw
  vfetched,  \* history: the requests issued, in order
  vtried,    \* history: the strategies entered, in order
  vres,      \* history: what _resolveEmbedUrl returned for each candidate
  vajax      \* history: what _tryAjaxReadingContent returned

videoVars == <<vpc, vpage, vsources, vidx, vresult, vfetched, vtried, vres, vajax>>

VARIABLES
  epc,      \* position of the getEpisodes call
  epage,    \* html of the anime page: its chapter items, in document order
  eresult   \* what getEpisodes returned or threw

epVars == <<epc, epage, eresult>>

VARIABLES
  cpc,         \* position of the _fetchCoverForAnime call
  cterms,      \* number of search terms of the anime
  cidx,        \* index of the term being looked up
  cmem,        \* _memCache over the keys of this anime
  cdb,         \* the IndexedDB store over the keys of this anime
  cdbPending,  \* _dbSet calls that have not reached their put yet
  cret,        \* what _fetchCoverForAnime returned
  clookups,    \* number of calls of _fetchCoverForAnime so far
  cendAt,      \* history: Date.now() when the latest call returned
  cans,        \* history: the kinds of API answer the current call received
  cneg,        \* history: keys the current call stored an empty cover under
  cfromNeg,    \* history: the current call was answered from an empty-valued entry
  crepeat,     \* history: the current call immediately follows a call that got only 429
  canime,      \* the anime _fetchCoverForAnime was called with
  clog,        \* history: the cache lookups and API requests of the current call
  cprev        \* history: how the previous call ended, and when the current one began

coverVars ==
  <<cpc, cterms, cidx, cmem, cdb, cdbPending, cret, clookups, cendAt, cans,
    cneg, cfromNeg, crepeat, canime, clog, cprev>>

VARIABLES
  spc,        \* position of the search call
  schan,      \* what each search channel answered (its html), or Pending
  sfallback,  \* html of the fallback site-search page, or Pending
  sresult,    \* what search returned
  sarrived,   \* history: the channels in the order their answers arrived
  srequests   \* history: the requests issued, in order

searchVars == <<spc, schan, sfallback, sresult, sarrived, srequests>>

VARIABLES
  lpc,      \* position of the getLatestEpisodes call
  lpage,    \* what the homepage request answered
  lresult   \* what getLatestEpisodes returned

latestVars == <<lpc, lpage, lresult>>

VARIABLES
  ipc,      \* position of the getAnimeInfo call
  ipage,    \* what the anime page request answered
  iresult   \* what getAnimeInfo returned

infoVars == <<ipc, ipage, iresult>>

VARIABLES
  apc,         \* position of the handleAction call
  areq,        \* the message being handled
  aresp,       \* what sendResponse was called with, as the page receives it
  ainvoked,    \* history: the source operations invoked for the message
  searchCache, \* searchCache: source name -> entry of the one query, or NoEntry
  aenrich,     \* the list enrichCoversAsync is working on
  apushed,     \* history: the cover patches sent to the tab
  anreq        \* number of messages received so far

actionVars == <<apc, areq, aresp, ainvoked, searchCache, aenrich, apushed, anreq>>

VARIABLES
  xpc,    \* position of the _extractEpisodeNumber call
  xtext,  \* its text argument
  xhref,  \* its href argument
  xnum    \* what it returned

numberVars == <<xpc, xtext, xhref, xnum>>

VARIABLES
  bpc,     \* position of the _bestJikanMatch call
  bquery,  \* its query argument
  bitems,  \* its items argument
  bresult  \* the index in items of the item it returned, 0 for undefined

matchVars == <<bpc, bquery, bitems, bresult>>

VARIABLES
  npc,         \* position of the enrichCoversAsync call
  nresults,    \* the length of its results argument
  nonUpdate,   \* whether an onUpdate callback was passed
  ncover,      \* per result: "wait" while its lookup runs, else what it returned
  pending,     \* the patches pushed and not yet spliced out
  scheduled,   \* whether the variable scheduled holds a timer handle
  timerArmed,  \* whether the 50 ms timer is still set in the event loop
  nbatches,    \* the arguments of the onUpdate calls, in order
  nlate        \* whether onUpdate was called after the call had completed

enrichVars == <<npc, nresults, nonUpdate, ncover, pending, scheduled, timerArmed, nbatches, nlate>>

VARIABLES
  qpc,       \* per extRequest call: "idle", "waiting", "resolved", "rejected", "timedout"
  qid,       \* the id the call drew, 0 before it
  qsettled,  \* how many times its resolve or reject was called
  qby,       \* what settled it: the id of a response, 0 for its timer, -1 so far
  wqueue,    \* the messages posted to the window and not yet dispatched
  relayed,   \* the ids whose chrome.runtime.sendMessage callback is outstanding
  nresp,     \* per id, the responses the content script has posted
  wseen      \* the ids of the responses dispatched so far

relayVars == <<qpc, qid, qsettled, qby, wqueue, relayed, nresp, wseen>>

vars == <<now, gateVars, cacheVars, videoVars, epVars, coverVars, searchVars, latestVars, infoVars, actionVars, numberVars, matchVars, enrichVars, relayVars>>

\* The variables of the other components, for UNCHANGED.
notGate == <<cacheVars, videoVars, epVars, coverVars, searchVars, latestVars, infoVars, actionVars, numberVars, matchVars, enrichVars, relayVars>>

notCache == <<gateVars, videoVars, epVars, coverVars, searchVars, latestVars, infoVars, actionVars, numberVars, matchVars, enrichVars, relayVars>>

notVideo == <<now, gateVars, cacheVars, epVars, coverVars, searchVars, latestVars, infoVars, actionVars, numberVars, matchVars, enrichVars, relayVars>>

notEpisodes == <<now, gateVars, cacheVars, videoVars, coverVars, searchVars, latestVars, infoVars, actionVars, numberVars, matchVars, enrichVars, relayVars>>

notCover == <<gateVars, cacheVars, videoVars, epVars, searchVars, latestVars, infoVars, actionVars, numberVars, matchVars, enrichVars, relayVars>>

notSearch == <<now, gateVars, cacheVars, videoVars, epVars, coverVars, latestVars, infoVars, actionVars, numberVars, matchVars, enrichVars, relayVars>>

notLatest == <<now, gateVars, cacheVars, videoVars, epVars, coverVars, searchVars, infoVars, actionVars, numberVars, matchVars, enrichVars, relayVars>>

notInfo == <<now, gateVars, cacheVars, videoVars, epVars, coverVars, searchVars, latestVars, actionVars, numberVars, matchVars, enrichVars, relayVars>>

notAction == <<gateVars, cacheVars, videoVars, epVars, coverVars, searchVars, latestVars, infoVars, numberVars, matchVars, enrichVars, relayVars>>

notNumber == <<now, gateVars, cacheVars, videoVars, epVars, coverVars, searchVars, latestVars, infoVars, actionVars, matchVars, enrichVars, relayVars>>

notMatch == <<now, gateVars, cacheVars, videoVars, epVars, coverVars, searchVars, latestVars, infoVars, actionVars, numberVars, enrichVars, relayVars>>

notEnrich == <<now, gateVars, cacheVars, videoVars, epVars, coverVars, searchVars, latestVars, infoVars, actionVars, numberVars, matchVars, relayVars>>

notRelay == <<now, gateVars, cacheVars, videoVars, epVars, coverVars, searchVars, latestVars, infoVars, actionVars, numberVars, matchVars, enrichVars>>

(***************************************************************************)
(* Admission gate: _jikanAcquire / _jikanRelease                           *)
(***************************************************************************)
Callers == 1..NumCallers

GateInitVars ==
  /\ jikanInFlight = 0
  /\ jikanLastStart = 0
  /\ gpc = [p \in Callers |-> "idle"]
  /\ gwake = [p \in Callers |-> 0]
  /\ prevStart = 0
  /\ nGrants = 0
  /\ gacq = [p \in Callers |-> 0]
  /\ grel = [p \in Callers |-> 0]

\* Lines 105-106: the grant itself.
Grant(p) ==
  /\ jikanInFlight' = jikanInFlight + 1
  /\ prevStart' = jikanLastStart
  /\ jikanLastStart' = now
  /\ nGrants' = IF nGrants < 2 THEN nGrants + 1 ELSE nGrants
  /\ gpc' = [gpc EXCEPT ![p] = "holding"]
  /\ gwake' = gwake
  /\ gacq' = [gacq EXCEPT ![p] = gacq[p] + 1]
  /\ UNCHANGED grel

\* Lines 101-106: spacing check made once the while loop has been left.
SpacingCheck(p) ==
  LET elapsed == now - jikanLastStart IN
  IF elapsed < JIKAN_DELAY_MS
    THEN /\ gpc' = [gpc EXCEPT ![p] = "spacing"]
         /\ gwake' = [gwake EXCEPT ![p] = now + (JIKAN_DELAY_MS - elapsed)]
         /\ UNCHANGED <<jikanInFlight, jikanLastStart, prevStart, nGrants, gateHist>>
    ELSE Grant(p)

\* Lines 98-106: the caller runs synchronously from the while test up to
\* its next await (or to the end of _jikanAcquire).
AcquireLoop_NeverLeaves(p) ==
  /\ gpc' = [gpc EXCEPT ![p] = "poll"]
  /\ gwake' = [gwake EXCEPT ![p] = now + POLL_MS]
  /\ UNCHANGED <<jikanInFlight, jikanLastStart, prevStart, nGrants, gateHist>>

AcquireLoop(p) ==
  IF jikanInFlight >= JIKAN_CONCURRENCY
    THEN /\ gpc' = [gpc EXCEPT ![p] = "poll"]
         /\ gwake' = [gwake EXCEPT ![p] = now + POLL_MS]
         /\ UNCHANGED <<jikanInFlight, jikanLastStart, prevStart, nGrants, gateHist>>
    ELSE SpacingCheck(p)

\* A caller enters _jikanAcquire.
AcquireCall(p) ==
  /\ gpc[p] = "idle"
  /\ AcquireLoop(p)
  /\ UNCHANGED <<now, notGate>>

\* The 50 ms poll timer of line 99 fires: the while test is made again.
PollWake(p) ==
  /\ gpc[p] = "poll"
  /\ now >= gwake[p]
  /\ AcquireLoop(p)
  /\ UNCHANGED <<now, notGate>>

\* The spacing timer of line 103 fires: lines 105-106 run unconditionally.
SpacingWake(p) ==
  /\ gpc[p] = "spacing"
  /\ now >= gwake[p]
  /\ Grant(p)
  /\ UNCHANGED <<now, notGate>>

\* The outcomes of the request of an admitted call of _fetchCoverByQuery,
\* lines 773-787: status 429, another non-2xx status, an exception, a 2xx
\* answer.
Outcomes == {"429", "error", "throw", "ok"}

\* Number of _jikanRelease calls the outcome leads to: the finally block of
\* lines 788-790 runs after every return and after the catch.
Releases_Not429(outcome) == IF outcome = "429" THEN 0 ELSE 1

Releases(outcome) == 1

\* _fetchCoverByQuery is answered from the cache, line 769: it returns
\* before _jikanAcquire.
CachedLookup(p) ==
  /\ gpc[p] = "idle"
  /\ gpc' = [gpc EXCEPT ![p] = "cached"]
  /\ UNCHANGED <<now, jikanInFlight, jikanLastStart, gwake, prevStart, nGrants,
                 gateHist, notGate>>

\* The request of an admitted call completes, lines 773-790: _jikanRelease
\* is called from the finally block.
Release(p) ==
  /\ gpc[p] = "holding"
  /\ \E outcome \in Outcomes :
       /\ jikanInFlight' = jikanInFlight - Releases(outcome)
       /\ grel' = [grel EXCEPT ![p] = grel[p] + Releases(outcome)]
  /\ gpc' = [gpc EXCEPT ![p] = "done"]
  /\ UNCHANGED <<now, jikanLastStart, gwake, prevStart, nGrants, gacq, notGate>>

\* Time passes.
GateTick ==
  /\ now + POLL_MS <= StartNow + GateSteps * POLL_MS
  /\ now' = now + POLL_MS
  /\ UNCHANGED <<gateVars, notGate>>

\* The caller's task calls _fetchCoverByQuery again: the next term of the
\* loop of lines 753-759, or the next lookup.
NextCall(p) ==
  /\ gpc[p] \in {"done", "cached"}
  /\ gpc' = [gpc EXCEPT ![p] = "idle"]
  /\ gacq' = [gacq EXCEPT ![p] = 0]
  /\ grel' = [grel EXCEPT ![p] = 0]
  /\ UNCHANGED <<now, jikanInFlight, jikanLastStart, gwake, prevStart, nGrants,
                 notGate>>

\* A pending timer of _jikanAcquire fires, at a moment the clock does not
\* count: line 99 goes back to the while test, line 103 goes on to lines
\* 105-106.
TimerFires(p) ==
  /\ gpc[p] \in {"poll", "spacing"}
  /\ IF gpc[p] = "poll" THEN AcquireLoop(p) ELSE Grant(p)
  /\ UNCHANGED <<now, notGate>>

(***************************************************************************)
(* Cover cache: _cacheGet / _cacheSet / _dbSet                             *)
(***************************************************************************)
Keys == {"k1"}
Covers == {"", "img"}
Readers == 1..NumReaders

\* null / undefined where an entry is expected.
NoEntry == [absent |-> TRUE]

Entry(key, cover, at) == [key |-> key, cover |-> cover, at |-> at]

CacheInitVars ==
  /\ memCache = [k \in Keys |-> NoEntry]
  /\ db = [k \in Keys |-> NoEntry]
  /\ dbPending = {}
  /\ rpc = [r \in Readers |-> "idle"]
  /\ rkey = [r \in Readers |-> None]
  /\ rret = [r \in Readers |-> NoEntry]
  /\ rcase = [r \in Readers |-> "other"]
  /\ seen = {}
  /\ rafter = [r \in Readers |-> FALSE]
  /\ missLast = [k \in Keys |-> FALSE]
  /\ written = [k \in Keys |-> FALSE]
  /\ cticks = 0

\* Lines 69 and 75: the TTL class of an entry.
TtlOf_Same(e) == COVER_TTL

TtlOf(e) == IF e.cover # "" THEN COVER_TTL ELSE COVER_ERROR_TTL

\* Lines 70 and 76: the entry is present and younger than its TTL.
Fresh(e) == e # NoEntry /\ now - e.at < TtlOf(e)

\* Line 88: which writes _cacheSet hands to _dbSet.
Persisted_Always(cover) == TRUE

Persisted(cover) == cover # ""

\* _cacheSet(key, cover), lines 84-89.  _dbSet is started, not awaited.
CacheSet(k, c) ==
  /\ memCache' = [memCache EXCEPT ![k] = Entry(k, c, now)]
  /\ dbPending' = IF Persisted(c) THEN dbPending \cup {<<k, c>>} ELSE dbPending
  /\ missLast' = [missLast EXCEPT ![k] = (c = "")]
  /\ written' = [written EXCEPT ![k] = TRUE]
  /\ UNCHANGED <<now, notCache, db, readVars, cticks>>

\* _dbSet after its await _openDB(), lines 60-61: the put, stamped then.
DbPut(w) ==
  /\ w \in dbPending
  /\ dbPending' = dbPending \ {w}
  /\ db' = [db EXCEPT ![w[1]] = Entry(w[1], w[2], now)]
  /\ UNCHANGED <<now, notCache, memCache, readVars, writeHist, cticks>>

\* _dbSet when _openDB() rejects, line 62: the write is dropped.
DbFail(w) ==
  /\ w \in dbPending
  /\ dbPending' = dbPending \ {w}
  /\ UNCHANGED <<now, notCache, memCache, db, readVars, writeHist, cticks>>

\* History only: the age of the entry a read finds in the memory tier, as
\* the cache contract classes it.
AgeClass(e) ==
  IF e = NoEntry THEN "other"
  ELSE IF e.cover = "" /\ now - e.at >= COVER_ERROR_TTL THEN "staleMiss"
  ELSE IF e.cover # "" /\ now - e.at >= COVER_ERROR_TTL /\ now - e.at < COVER_TTL
    THEN "agedCover"
  ELSE "other"

\* History only: the last result stored for the key was a miss, and it was
\* stored before the last restart.
MissBefore(k) == missLast[k] /\ ~written[k]

\* History only: the classes of entry that completed reads have met.
Seen(c) == IF c = "other" THEN seen ELSE seen \cup {c}

\* _cacheGet(key), lines 66-73: the memory tier, then the await of _dbGet.
CacheGetStart(r, k) ==
  /\ rpc[r] \in {"idle", "done"}
  /\ rkey' = [rkey EXCEPT ![r] = k]
  /\ rcase' = [rcase EXCEPT ![r] = AgeClass(memCache[k])]
  /\ rafter' = [rafter EXCEPT ![r] = MissBefore(k)]
  /\ IF Fresh(memCache[k])
       THEN /\ rpc' = [rpc EXCEPT ![r] = "done"]
            /\ rret' = [rret EXCEPT ![r] = memCache[k]]
            /\ seen' = Seen(AgeClass(memCache[k]))
       ELSE /\ rpc' = [rpc EXCEPT ![r] = "db"]
            /\ rret' = [rret EXCEPT ![r] = NoEntry]
            /\ seen' = seen
  /\ UNCHANGED <<now, notCache, memCache, db, dbPending, writeHist, cticks>>

\* Line 77: _memCache[key] = stored.
Promote_Nothing(k, stored) == memCache

Promote(k, stored) == [memCache EXCEPT ![k] = stored]

\* _cacheGet(key), lines 73-81: _dbGet has answered (null when the request
\* or _openDB failed, lines 52 and 54).
CacheGetDb(r) ==
  /\ rpc[r] = "db"
  /\ \E stored \in {db[rkey[r]], NoEntry} :
       IF Fresh(stored)
         THEN /\ memCache' = Promote(rkey[r], stored)
              /\ rret' = [rret EXCEPT ![r] = stored]
         ELSE /\ rret' = [rret EXCEPT ![r] = NoEntry]
              /\ UNCHANGED memCache
  /\ rpc' = [rpc EXCEPT ![r] = "done"]
  /\ seen' = Seen(rcase[r])
  /\ UNCHANGED <<now, notCache, db, dbPending, rkey, rcase, rafter, writeHist,
                 cticks>>

\* The service worker is restarted: module state is lost, IndexedDB is kept.
Restart ==
  /\ memCache' = [k \in Keys |-> NoEntry]
  /\ dbPending' = {}
  /\ rpc' = [r \in Readers |-> "idle"]
  /\ rkey' = [r \in Readers |-> None]
  /\ rret' = [r \in Readers |-> NoEntry]
  /\ rcase' = [r \in Readers |-> "other"]
  /\ rafter' = [r \in Readers |-> FALSE]
  /\ written' = [k \in Keys |-> FALSE]
  /\ UNCHANGED <<now, notCache, db, seen, missLast, cticks>>

TickSteps == {COVER_ERROR_TTL, COVER_TTL - COVER_ERROR_TTL}

CacheHorizon == StartNow + COVER_TTL + 2 * COVER_ERROR_TTL

\* Time passes.
CacheTick ==
  /\ cticks < MaxTicks
  /\ \E d \in TickSteps :
       /\ now + d <= CacheHorizon
       /\ now' = now + d
  /\ cticks' = cticks + 1
  /\ UNCHANGED <<notCache, memCache, db, dbPending, readVars, writeHist>>

(***************************************************************************)
(* Page requests                                                           *)
(***************************************************************************)
\* fetch did not give a page: a non-2xx status or a rejected promise.
TransportFailures == {[ok |-> FALSE, why |-> "status"], [ok |-> FALSE, why |-> "network"]}

\* A page that arrived: what the regular expressions find in it, in order.
Html(blocks) == [ok |-> TRUE, blocks |-> blocks]

\* No answer yet.
Pending == [pending |-> TRUE]

(***************************************************************************)
(* Video resolver: getVideoUrl and its helpers                             *)
(*                                                                         *)
(* A URL is what the code looks at in it: the provider names it contains   *)
(* (String.includes), whether it is protocol-relative, and an identity.    *)
(* A page is what the regular expressions find in it.                      *)
(***************************************************************************)
Url(id, names, rel) == [id |-> id, names |-> names, rel |-> rel]

\* null where a URL is expected.
NoUrl == [nourl |-> TRUE]

AboutBlank == Url("about:blank", {}, FALSE)

\* `${BASE}/anime/${episodeId}/`, line 487.
PageUrl == Url("episode-page", {}, FALSE)

\* Iframe sources of genuine entries of thisChapterSources.
EmbedUrls ==
  { Url("e1", {"vidmoly"}, FALSE), Url("e2", {"voe"}, FALSE),
    Url("e3", {}, TRUE), Url("e4", {}, FALSE) }

\* Iframe source of an entry that carries the captcha marker.
DecoyUrl == Url("decoy", {}, FALSE)

\* Iframe sources found in the page body or in the reading-content answer.
BodySrcs ==
  { AboutBlank, Url("ad", {"google.com"}, FALSE), Url("player", {}, TRUE) }

VideoTagSrc == Url("video-tag", {}, FALSE)

ScriptMediaUrl == Url("script-media", {}, TRUE)

\* if (u.startsWith("//")) u = "https:" + u
Https(u) == [u EXCEPT !.rel = FALSE]

SeqsUpTo(S, n) == UNION {[1..k -> S] : k \in 0..n}

\* One "label": "html fragment" pair of thisChapterSources: whether the
\* fragment matches /recaptcha|captcha/i, the src of its iframe tag (NoUrl
\* when it has none) and whether that attribute is written with single
\* quotes, which JSON leaves unescaped.
TableEntries ==
  {[captcha |-> FALSE, iframe |-> u, sq |-> FALSE] : u \in EmbedUrls \cup {NoUrl}}
    \cup {[captcha |-> TRUE, iframe |-> DecoyUrl, sq |-> q] : q \in BOOLEAN}

Pages ==
  [ table : SeqsUpTo(TableEntries, MaxTable),
    iframes : SeqsUpTo(BodySrcs, MaxIframes),
    ids : BOOLEAN,
    video : {NoUrl, VideoTagSrc},
    script : {NoUrl, ScriptMediaUrl} ]

NoPage ==
  [table |-> <<>>, iframes |-> <<>>, ids |-> FALSE, video |-> NoUrl,
   script |-> NoUrl]

\* What an embed page holds: a vidmoly player configuration (file/source
\* key with an .m3u8 value, which the generic patterns match as well), a voe
\* configuration ('hls' / 'mp4' key), a URL the generic patterns match.
EmbedPages ==
  {e \in [ok : {TRUE}, vidmoly : BOOLEAN, voe : BOOLEAN, generic : BOOLEAN] :
     e.vidmoly => e.generic}

EmbedFailure == [ok |-> FALSE]

EmbedResponses == EmbedPages \cup {EmbedFailure}

\* The URL an extraction pattern captures in the page of embed u.
Direct(u, kind) == [id |-> kind, names |-> {}, rel |-> FALSE, from |-> u.id]

\* Answers to the reading-content request.
AjaxFailure == [ok |-> FALSE]

AjaxResponses ==
  {AjaxFailure} \cup [ok : {TRUE}, iframes : SeqsUpTo(BodySrcs, MaxIframes)]

PageRequest == [req |-> "page"]

EmbedRequest(u) == [req |-> "embed", url |-> u]

AjaxRequest == [req |-> "ajax"]

\* HOST_PRIORITY.findIndex((h) => url.includes(h)), -1 when none.
FindIndex(u) ==
  LET hits == {i \in 1..Len(HOST_PRIORITY) : HOST_PRIORITY[i] \in u.names} IN
  IF hits = {} THEN -1
  ELSE (CHOOSE i \in hits : \A j \in hits : i <= j) - 1

\* Line 648: aIdx === -1 ? HOST_PRIORITY.length : aIdx.
SortKey_Raw(u) == FindIndex(u)

SortKey(u) == IF FindIndex(u) = -1 THEN Len(HOST_PRIORITY) ELSE FindIndex(u)

\* Array.prototype.sort with the comparator of lines 645-649: stable.
RECURSIVE InsertByKey(_, _)
InsertByKey(sorted, x) ==
  IF sorted = <<>> THEN <<x>>
  ELSE IF SortKey(x.url) < SortKey(Head(sorted).url)
    THEN <<x>> \o sorted
  ELSE <<Head(sorted)>> \o InsertByKey(Tail(sorted), x)

RECURSIVE SortSources(_)
SortSources(xs) ==
  IF xs = <<>> THEN <<>>
  ELSE InsertByKey(SortSources(SubSeq(xs, 1, Len(xs) - 1)), xs[Len(xs)])

\* Line 634: the fragment is dropped before its iframe is looked for.
Discarded(entry) == entry.captcha

\* Lines 626-643: the candidates in table order.  The label is modelled by
\* the position of the entry in the table.
RECURSIVE CollectSources(_, _)
CollectSources(table, i) ==
  IF i > Len(table) THEN <<>>
  ELSE IF Discarded(table[i]) \/ table[i].iframe = NoUrl
    THEN CollectSources(table, i + 1)
  ELSE <<[name |-> i, url |-> Https(table[i].iframe)]>>
         \o CollectSources(table, i + 1)

\* _parseChapterSources(html), lines 617-652.
ParseChapterSources(page) == SortSources(CollectSources(page.table, 1))

\* Line 660: sources the iframe scan passes over.
Skipped(src) ==
  src = AboutBlank \/ "google.com" \in src.names \/ "facebook.com" \in src.names

\* _findIframeVideo(html), lines 654-665, over the iframe tags of html.
RECURSIVE FindIframeVideo(_)
FindIframeVideo(srcs) ==
  IF srcs = <<>> THEN NoUrl
  ELSE IF Skipped(Head(srcs)) THEN FindIframeVideo(Tail(srcs))
  ELSE Https(Head(srcs))

\* The iframe tags the regular expression of line 656 matches in the page
\* text.  It runs over the whole text, script included: a table fragment
\* whose iframe src is single-quoted is matched too (the escaped \" of a
\* double-quoted one is not).  The script is taken to follow the body.
RECURSIVE QuotedIframes(_)
QuotedIframes(table) ==
  IF table = <<>> THEN <<>>
  ELSE IF Head(table).sq /\ Head(table).iframe # NoUrl
    THEN <<Head(table).iframe>> \o QuotedIframes(Tail(table))
  ELSE QuotedIframes(Tail(table))

RawIframes(page) == page.iframes \o QuotedIframes(page.table)

\* _extractGenericVideoUrl(html), lines 599-615.
ExtractGenericVideoUrl(u, e) == IF e.generic THEN Direct(u, "generic") ELSE NoUrl

\* _extractVidmoly(html), lines 567-578.
ExtractVidmoly(u, e) ==
  IF e.vidmoly THEN Direct(u, "m3u8") ELSE ExtractGenericVideoUrl(u, e)

\* _extractVoe(html), lines 580-597.
ExtractVoe(u, e) ==
  IF e.voe THEN Direct(u, "hls") ELSE ExtractGenericVideoUrl(u, e)

\* _resolveEmbedUrl(embedUrl), lines 548-565, given the answer to its fetch.
ResolveEmbedUrl(u, e) ==
  IF ~e.ok THEN NoUrl
  ELSE IF "vidmoly" \in u.names THEN ExtractVidmoly(u, e)
  ELSE IF "voe" \in u.names THEN ExtractVoe(u, e)
  ELSE ExtractGenericVideoUrl(u, e)

\* _findVideoInScripts(html), lines 700-716.
FindVideoInScripts(page) ==
  IF page.script = NoUrl THEN NoUrl ELSE Https(page.script)

\* The objects getVideoUrl returns; by is history: the strategy that
\* produced the result.
Result(url, type, referer, sources, by) ==
  [kind |-> "ok", url |-> url, type |-> type, referer |-> referer,
   sources |-> sources, by |-> by]

Failure(msg) == [kind |-> "error", msg |-> msg]

NoResult == [kind |-> "pending"]

\* Lines 509-516: the iframe-mode result.
IframeModeResult_Throw(sources) ==
  Failure("Could not find video URL on episode page")

IframeModeResult(sources) ==
  Result(sources[1].url, "iframe", PageUrl, sources, 1)

\* Lines 531-543: strategy 4, then the throw.
LastStrategy_NoThrow(page) ==
  Result(FindVideoInScripts(page), None, PageUrl, <<>>, 4)

LastStrategy(page) ==
  IF page.video # NoUrl THEN Result(page.video, None, PageUrl, <<>>, 4)
  ELSE IF FindVideoInScripts(page) # NoUrl
    THEN Result(FindVideoInScripts(page), None, PageUrl, <<>>, 4)
  ELSE Failure("Could not find video URL on episode page")

\* Lines 519-529 up to the await of the reading-content request: what
\* getVideoUrl does once the source table gave no candidate.
AfterTable_AjaxFirst(page) ==
  IF page.ids
    THEN [pc |-> "ajax", result |-> NoResult, tried |-> <<1, 3>>]
  ELSE IF FindIframeVideo(RawIframes(page)) # NoUrl
    THEN [pc |-> "done", tried |-> <<1, 3, 2>>,
          result |-> Result(FindIframeVideo(RawIframes(page)), None, PageUrl,
                            <<>>, 2)]
  ELSE [pc |-> "done", result |-> LastStrategy(page), tried |-> <<1, 3, 2, 4>>]

AfterTable(page) ==
  IF FindIframeVideo(RawIframes(page)) # NoUrl
    THEN [pc |-> "done", tried |-> <<1, 2>>,
          result |-> Result(FindIframeVideo(RawIframes(page)), None, PageUrl,
                            <<>>, 2)]
  ELSE IF page.ids
    THEN [pc |-> "ajax", result |-> NoResult, tried |-> <<1, 2, 3>>]
  ELSE [pc |-> "done", result |-> LastStrategy(page), tried |-> <<1, 2, 3, 4>>]

VideoInitVars ==
  /\ vpc = "idle"
  /\ vpage = NoPage
  /\ vsources = <<>>
  /\ vidx = 0
  /\ vresult = NoResult
  /\ vfetched = <<>>
  /\ vtried = <<>>
  /\ vres = <<>>
  /\ vajax = NoUrl

\* getVideoUrl(episodeId), lines 486-488: the page is requested.
GetVideoUrlCall ==
  /\ vpc = "idle"
  /\ vpc' = "page"
  /\ vfetched' = <<PageRequest>>
  /\ UNCHANGED <<vpage, vsources, vidx, vresult, vtried, vres, vajax, notVideo>>

\* Lines 489-490: the page request fails (a rejected fetch or !resp.ok).
PageFails ==
  /\ vpc = "page"
  /\ vpc' = "done"
  /\ vresult' = Failure("Failed to fetch episode page")
  /\ UNCHANGED <<vpage, vsources, vidx, vfetched, vtried, vres, vajax, notVideo>>

\* Lines 492-529: the page arrives; getVideoUrl runs up to its next await.
PageParsed(page) ==
  /\ vpage' = page
  /\ vsources' = ParseChapterSources(page)
  /\ IF Len(ParseChapterSources(page)) > 0
       THEN /\ vpc' = "embed"
            /\ vidx' = 1
            /\ vfetched' =
                 Append(vfetched, EmbedRequest(ParseChapterSources(page)[1].url))
            /\ vtried' = <<1>>
            /\ vresult' = vresult
       ELSE /\ vpc' = AfterTable(page).pc
            /\ vresult' = AfterTable(page).result
            /\ vtried' = AfterTable(page).tried
            /\ vfetched' = IF AfterTable(page).pc = "ajax"
                             THEN Append(vfetched, AjaxRequest) ELSE vfetched
            /\ vidx' = vidx
  /\ UNCHANGED <<vres, vajax, notVideo>>

PageArrives ==
  /\ vpc = "page"
  /\ \E page \in Pages : PageParsed(page)

\* Lines 497-517: the fetch of candidate vidx is answered.
EmbedResolved(e) ==
  /\ LET src == vsources[vidx]
         directUrl == ResolveEmbedUrl(src.url, e) IN
       /\ vres' = Append(vres, directUrl)
       /\ IF directUrl # NoUrl
            THEN /\ vpc' = "done"
                 /\ vresult' = Result(directUrl, None, src.url, vsources, 1)
                 /\ UNCHANGED <<vidx, vfetched>>
            ELSE IF vidx < Len(vsources)
              THEN /\ vidx' = vidx + 1
                   /\ vfetched' =
                        Append(vfetched, EmbedRequest(vsources[vidx + 1].url))
                   /\ UNCHANGED <<vpc, vresult>>
              ELSE /\ vpc' = "done"
                   /\ vresult' = IframeModeResult(vsources)
                   /\ UNCHANGED <<vidx, vfetched>>
  /\ UNCHANGED <<vpage, vsources, vtried, vajax, notVideo>>

EmbedAnswered ==
  /\ vpc = "embed"
  /\ \E e \in EmbedResponses : EmbedResolved(e)

\* _tryAjaxReadingContent, lines 690-697, given the answer to its request.
AjaxUrl(a) == IF a.ok /\ a.iframes # <<>> THEN FindIframeVideo(a.iframes) ELSE NoUrl

\* Lines 526-543: the reading-content request is answered.
AjaxResolved(a) ==
  /\ vpc' = "done"
  /\ vajax' = AjaxUrl(a)
  /\ IF AjaxUrl(a) # NoUrl
       THEN /\ vresult' = Result(AjaxUrl(a), None, PageUrl, <<>>, 3)
            /\ vtried' = vtried
       ELSE /\ vresult' = LastStrategy(vpage)
            /\ vtried' = Append(vtried, 4)
  /\ UNCHANGED <<vpage, vsources, vidx, vfetched, vres, notVideo>>

AjaxAnswered ==
  /\ vpc = "ajax"
  /\ \E a \in AjaxResponses : AjaxResolved(a)

(***************************************************************************)
(* Episode list: getEpisodes                                               *)
(*                                                                         *)
(* The link text and the href of a chapter item are sequences of tokens:   *)
(* a word, a dash, a number, a language marker (VOSTFR / VF).  The parts   *)
(* of an href are separated by dashes.                                     *)
(***************************************************************************)
Word == [t |-> "word"]

Dash == [t |-> "dash"]

Marker == [t |-> "marker"]

Num(n) == [t |-> "num", v |-> n]

IsNum(tok) == tok.t = "num"

\* Line 829: the first number that follows a dash and precedes a marker.
TextMarked_NoDash(text) ==
  {i \in 0..Len(text) - 2 : IsNum(text[i + 1]) /\ text[i + 2] = Marker}

TextMarked(text) ==
  {i \in 1..Len(text) - 2 :
     text[i] = Dash /\ IsNum(text[i + 1]) /\ text[i + 2] = Marker}

\* Line 832: the first dash-separated part of the href that is a number and
\* is followed by the marker part.
HrefMarked(href) ==
  {i \in 2..Len(href) - 1 : IsNum(href[i]) /\ href[i + 1] = Marker}

Least(S) == CHOOSE i \in S : \A j \in S : i <= j

Greatest(S) == CHOOSE i \in S : \A j \in S : i >= j

\* _extractEpisodeNumber(text, href), lines 828-838.
ExtractEpisodeNumber(text, href) ==
  IF TextMarked(text) # {} THEN text[Least(TextMarked(text)) + 1].v
  ELSE IF HrefMarked(href) # {} THEN href[Least(HrefMarked(href))].v
  ELSE IF {i \in 1..Len(text) : IsNum(text[i])} # {}
    THEN text[Greatest({i \in 1..Len(text) : IsNum(text[i])})].v
  ELSE 0

\* A <li class="wp-manga-chapter"> of the anime page: whether it holds a
\* link, the link text and the href.
ChapterItem(n) ==
  [link |-> TRUE, text |-> <<Word, Dash, Num(n), Marker>>,
   href |-> <<Word, Num(n), Marker>>]

ChapterItems ==
  {ChapterItem(n) : n \in 1..MaxEpisodeNumber}
    \cup {[link |-> FALSE, text |-> <<>>, href |-> <<>>],
          [link |-> TRUE, text |-> <<Word>>, href |-> <<Word>>]}

AnimePages == SeqsUpTo(ChapterItems, MaxChapters)

\* Lines 410-421: the episodes in document order.
RECURSIVE CollectEpisodes(_)
CollectEpisodes(items) ==
  IF items = <<>> THEN <<>>
  ELSE IF ~Head(items).link THEN CollectEpisodes(Tail(items))
  ELSE <<[id |-> Head(items).href,
          number |-> ExtractEpisodeNumber(Head(items).text, Head(items).href),
          title |-> Head(items).text]>> \o CollectEpisodes(Tail(items))

\* Array.prototype.reverse, line 423.
Reverse(xs) == [i \in 1..Len(xs) |-> xs[Len(xs) + 1 - i]]

EpisodesInitVars ==
  /\ epc = "idle"
  /\ epage = Pending
  /\ eresult = NoResult

\* getEpisodes(animeId), lines 398-400: the page is requested.
GetEpisodesCall ==
  /\ epc = "idle"
  /\ epc' = "page"
  /\ UNCHANGED <<epage, eresult, notEpisodes>>

\* Lines 400-402: the request fails; the error leaves getEpisodes.
EpisodesPageFails ==
  /\ epc = "page"
  /\ \E failure \in TransportFailures :
       /\ epage' = failure
       /\ eresult' = Failure(IF failure.why = "status"
                               THEN "Failed to fetch anime page"
                               ELSE "Failed to fetch")
  /\ epc' = "done"
  /\ UNCHANGED notEpisodes

\* Lines 404-424: the page arrives and is parsed.
EpisodesPageArrives ==
  /\ epc = "page"
  /\ \E items \in AnimePages :
       /\ epage' = Html(items)
       /\ eresult' = [kind |-> "ok", episodes |-> Reverse(CollectEpisodes(items))]
  /\ epc' = "done"
  /\ UNCHANGED notEpisodes

(***************************************************************************)
(* Cover lookup: _fetchCoverForAnime / _fetchCoverByQuery                  *)
(*                                                                         *)
(* An anime is what _getJikanSearchTerms looks at in it: how its cleaned   *)
(* title relates to its id with the dashes replaced by spaces ("none": the *)
(* cleaned title is empty, "id": the same string, "idcase": the same       *)
(* string up to case, "own": another string), and whether the title has a  *)
(* parenthesised part and a trailing dash-delimited part.                  *)
(* Key 0 is "anime:<id>"; the other keys are the lower-cased terms.        *)
(***************************************************************************)
AnimeKey == 0

\* Where the terms come from, in the order of lines 726-742.
TermSources == <<"title", "id", "paren", "dash">>

\* A term: the string str, built from src, cached under key.
Term(src, str, key) == [src |-> src, str |-> str, key |-> key]

Anime(title, paren, dash) == [title |-> title, paren |-> paren, dash |-> dash]

\* terms.add(t), lines 727-741: a Set keeps the first of equal strings.
AddTerm(terms, t) ==
  IF \E i \in DOMAIN terms : terms[i].str = t.str THEN terms ELSE Append(terms, t)

\* _getJikanSearchTerms(anime), lines 721-745.
GetJikanSearchTerms_DashFirst(anime) ==
  LET t0 == IF anime.dash THEN <<Term("dash", "dash", 4)>> ELSE <<>>
      t1 == IF anime.title = "none" THEN t0
            ELSE AddTerm(t0, Term("title", IF anime.title = "id" THEN "id" ELSE "title",
                                  IF anime.title = "own" THEN 1 ELSE 2))
      t2 == AddTerm(t1, Term("id", "id", 2))
  IN  IF anime.paren THEN AddTerm(t2, Term("paren", "paren", 3)) ELSE t2

GetJikanSearchTerms(anime) ==
  LET t1 == IF anime.title = "none" THEN <<>>
            ELSE <<Term("title", IF anime.title = "id" THEN "id" ELSE "title",
                        IF anime.title = "own" THEN 1 ELSE 2)>>
      t2 == AddTerm(t1, Term("id", "id", 2))
      t3 == IF anime.paren THEN AddTerm(t2, Term("paren", "paren", 3)) ELSE t2
  IN  IF anime.dash THEN AddTerm(t3, Term("dash", "dash", 4)) ELSE t3

\* The animes looked up: a title that is its id has neither part.
Animes ==
  {a \in {Anime(t, p, d) : t \in {"none", "id", "idcase", "own"}, p, d \in BOOLEAN} :
     /\ a.title # "own" => ~a.paren /\ ~a.dash
     /\ Len(GetJikanSearchTerms(a)) <= MaxTerms}

NoAnime == Anime("none", FALSE, FALSE)

\* Line 765: the cache key of the i-th term of the anime being looked up.
TermKey(i) == GetJikanSearchTerms(canime)[i].key

CoverKeys == 0..Len(TermSources)

\* An entry of the history of a call: a _cacheGet of a term's key, or the
\* admission to the gate and the request to the API for it, with the cover
\* _fetchCoverByQuery returned from it ("" on a cache miss).
Lookup(i, cover) == [op |-> "get", term |-> i, cover |-> cover]

ApiCall(i, cover) == [op |-> "api", term |-> i, cover |-> cover]

\* How the previous call ended and when the current one began.
Previous(exhausted, endAt, startAt) ==
  [exhausted |-> exhausted, endAt |-> endAt, startAt |-> startAt]

\* The answers of the Jikan request of lines 773-775: status 429, another
\* non-2xx status, a rejected fetch or json(), a 2xx answer.
ApiAnswers == {"429", "error", "throw", "ok"}

CoverInitVars ==
  /\ cpc = "idle"
  /\ cterms = 0
  /\ cidx = 0
  /\ cmem = [k \in CoverKeys |-> NoEntry]
  /\ cdb = [k \in CoverKeys |-> NoEntry]
  /\ cdbPending = {}
  /\ cret = ""
  /\ clookups = 0
  /\ cendAt = 0
  /\ cans = {}
  /\ cneg = {}
  /\ cfromNeg = FALSE
  /\ crepeat = FALSE
  /\ canime = NoAnime
  /\ clog = <<>>
  /\ cprev = Previous(FALSE, 0, 0)

\* _cacheGet(key), lines 65-82: the entry it returns; dbok is whether
\* _dbGet answered.
CoverCacheGet(k, dbok) ==
  IF Fresh(cmem[k]) THEN cmem[k]
  ELSE IF dbok /\ Fresh(cdb[k]) THEN cdb[k]
  ELSE NoEntry

\* Line 77: a durable hit is copied to the memory tier.
MemAfterGet(k, dbok) ==
  IF ~Fresh(cmem[k]) /\ dbok /\ Fresh(cdb[k])
    THEN [cmem EXCEPT ![k] = cdb[k]]
    ELSE cmem

\* The cache as the running call sees it: memory tier, pending _dbSet
\* calls, and the keys it stored an empty cover under.
CoverState(mem, puts, neg) == [mem |-> mem, pending |-> puts, neg |-> neg]

\* _cacheSet(key, cover), lines 84-89.
CoverCacheSet(st, k, c) ==
  [mem |-> [st.mem EXCEPT ![k] = Entry(k, c, now)],
   pending |-> IF Persisted(c) THEN st.pending \cup {<<k, c>>} ELSE st.pending,
   neg |-> IF c = "" THEN st.neg \cup {k} ELSE st.neg]

\* Lines 776-787: what _fetchCoverByQuery stores for an answer.
AfterAnswer(st, k, kind, cover) ==
  IF kind = "429" THEN st ELSE CoverCacheSet(st, k, cover)

\* Line 760: every term has been tried without a cover.
AfterTerms_Nothing(st, answers) == st

AfterTerms(st, answers) == CoverCacheSet(st, AnimeKey, "")

\* Lines 753-761: _fetchCoverByQuery returned cover for term cidx.
ContinueTerms(cover, st, answers, fromNeg) ==
  /\ cans' = answers
  /\ cfromNeg' = fromNeg
  /\ IF cover # ""
       THEN /\ cmem' = CoverCacheSet(st, AnimeKey, cover).mem
            /\ cdbPending' = CoverCacheSet(st, AnimeKey, cover).pending
            /\ cneg' = CoverCacheSet(st, AnimeKey, cover).neg
            /\ cret' = cover
            /\ cpc' = "done"
            /\ cendAt' = now
            /\ cidx' = cidx
     ELSE IF cidx < cterms
       THEN /\ cmem' = st.mem
            /\ cdbPending' = st.pending
            /\ cneg' = st.neg
            /\ cidx' = cidx + 1
            /\ cpc' = "query"
            /\ UNCHANGED <<cret, cendAt>>
       ELSE /\ cmem' = AfterTerms(st, answers).mem
            /\ cdbPending' = AfterTerms(st, answers).pending
            /\ cneg' = AfterTerms(st, answers).neg
            /\ cret' = ""
            /\ cpc' = "done"
            /\ cendAt' = now
            /\ cidx' = cidx

\* _fetchCoverForAnime(anime), lines 747-752: the anime's own cache entry.
FetchCoverForAnimeCall ==
  /\ cpc \in {"idle", "done"}
  /\ clookups < MaxLookups
  /\ clookups' = clookups + 1
  /\ \E anime \in Animes, dbok \in BOOLEAN :
       /\ cpc = "done" => anime = canime
       /\ canime' = anime
       /\ cterms' = Len(GetJikanSearchTerms(anime))
       /\ cmem' = MemAfterGet(AnimeKey, dbok)
       /\ IF CoverCacheGet(AnimeKey, dbok) # NoEntry
            THEN /\ cret' = CoverCacheGet(AnimeKey, dbok).cover
                 /\ cfromNeg' = (CoverCacheGet(AnimeKey, dbok).cover = "")
                 /\ cpc' = "done"
                 /\ cidx' = 0
                 /\ cendAt' = now
            ELSE /\ cfromNeg' = FALSE
                 /\ cpc' = "query"
                 /\ cidx' = 1
                 /\ UNCHANGED <<cret, cendAt>>
  /\ crepeat' = (cpc = "done" /\ cans = {"429"} /\ cendAt = now)
  /\ cans' = {}
  /\ cneg' = {}
  /\ clog' = <<>>
  /\ cprev' = Previous(cpc = "done" /\ clog # <<>> /\ cret = "", cendAt, now)
  /\ UNCHANGED <<now, cdb, cdbPending, notCover>>

\* _fetchCoverByQuery(query), lines 764-771: the term's cache entry; on a
\* miss the call goes on to the gate and the Jikan request.
FetchCoverByQueryCall ==
  /\ cpc = "query"
  /\ \E dbok \in BOOLEAN :
       LET e == CoverCacheGet(TermKey(cidx), dbok)
           st == CoverState(MemAfterGet(TermKey(cidx), dbok), cdbPending, cneg)
       IN  IF e # NoEntry
             THEN /\ ContinueTerms(e.cover, st, cans, cfromNeg \/ e.cover = "")
                  /\ clog' = Append(clog, Lookup(cidx, e.cover))
             ELSE /\ cpc' = "fetch"
                  /\ cmem' = st.mem
                  /\ clog' = Append(clog, Lookup(cidx, ""))
                  /\ UNCHANGED <<cidx, cdbPending, cret, cendAt, cans, cneg,
                                 cfromNeg>>
  /\ UNCHANGED <<now, cterms, cdb, clookups, crepeat, canime, cprev, notCover>>

\* Lines 773-790: the Jikan request has been answered.
JikanAnswered ==
  /\ cpc = "fetch"
  /\ \E kind \in ApiAnswers, cover \in Covers :
       /\ kind # "ok" => cover = ""
       /\ ContinueTerms(cover,
            AfterAnswer(CoverState(cmem, cdbPending, cneg), TermKey(cidx),
                        kind, cover),
            cans \cup {kind}, cfromNeg)
       /\ clog' = Append(clog, ApiCall(cidx, cover))
  /\ UNCHANGED <<now, cterms, cdb, clookups, crepeat, canime, cprev, notCover>>

\* _dbSet after its await _openDB(), lines 60-61.
CoverDbPut ==
  /\ \E w \in cdbPending :
       /\ cdbPending' = cdbPending \ {w}
       /\ cdb' = [cdb EXCEPT ![w[1]] = Entry(w[1], w[2], now)]
  /\ UNCHANGED <<now, cpc, cterms, cidx, cmem, cret, clookups, cendAt, cans,
                 cneg, cfromNeg, crepeat, canime, clog, cprev, notCover>>

\* _dbSet when _openDB() rejects, line 62.
CoverDbFail ==
  /\ \E w \in cdbPending : cdbPending' = cdbPending \ {w}
  /\ UNCHANGED <<now, cpc, cterms, cidx, cmem, cdb, cret, clookups, cendAt,
                 cans, cneg, cfromNeg, crepeat, canime, clog, cprev, notCover>>

\* Half of COVER_ERROR_TTL passes between two calls.
CoverTick ==
  /\ cpc = "done"
  /\ now < StartNow + COVER_ERROR_TTL
  /\ now' = now + COVER_ERROR_TTL \div 2
  /\ UNCHANGED <<coverVars, notCover>>

(***************************************************************************)
(* Catalog search: search / _parseSearchResults / _searchWpFallback        *)
(*                                                                         *)
(* A text is a sequence of words; a slug is the sequence of its            *)
(* hyphen-separated words.  A result page is the sequence of the link      *)
(* blocks the link regular expression finds in it.                         *)
(***************************************************************************)
Wd(w, cap) == [w |-> w, cap |-> cap]

\* null, where _slugFromUrl finds no slug in the link.
NoSlug == <<>>

Slugs == {<<"one", "piece">>, <<"naruto">>}

HeadingText == <<Wd("heading", TRUE)>>

LinkText == <<Wd("tom", FALSE), Wd("&amp;", FALSE), Wd("jerry", FALSE)>>

\* decodeEntities, lines 136-145.
DecodeEntities(text) ==
  [i \in DOMAIN text |->
     IF text[i].w = "&amp;" THEN Wd("&", text[i].cap) ELSE text[i]]

\* slug.replace(/-/g, " ").replace(/\b\w/g, c => c.toUpperCase()),
\* lines 256, 289, 438.
Humanize(slug) == [i \in DOMAIN slug |-> Wd(slug[i], TRUE)]

\* A link block: the slug of its href, the text of the <h3> inside it
\* (empty when there is none) and the stripped text of the whole link.
LinkBlock(slug, h3, text) == [slug |-> slug, h3 |-> h3, text |-> text]

LinkBlocks ==
  {LinkBlock(s, HeadingText, LinkText) : s \in Slugs}
    \cup {LinkBlock(s, <<>>, LinkText) : s \in Slugs}
    \cup {LinkBlock(s, <<>>, <<>>) : s \in Slugs}
    \cup {LinkBlock(NoSlug, <<>>, LinkText)}

ChannelResponses == TransportFailures \cup {Html(b) : b \in SeqsUpTo(LinkBlocks, MaxLinks)}

FallbackResponses ==
  TransportFailures \cup {Html(b) : b \in SeqsUpTo(Slugs \cup {NoSlug}, MaxLinks)}

\* The channel ids, in the order of the array literal of line 157.
CHANNELS == <<3, 2>>

\* Lines 179-185: the text a channel promise resolves to.
ChannelHtml(resp) == IF resp.ok THEN resp.blocks ELSE <<>>

\* Lines 247-256: the title of a link block.
BlockTitle(b) ==
  IF b.h3 # <<>> THEN b.h3
  ELSE IF b.text # <<>> THEN b.text
  ELSE Humanize(b.slug)

CatalogEntry(id, title) ==
  [id |-> id, title |-> title, cover |-> "", type |-> "TV", year |-> None]

\* Line 243: the block is skipped.
AlreadySeen_Never(slug, ids) == FALSE

AlreadySeen(slug, ids) == slug \in ids

\* _parseSearchResults(html, seenIds, results), lines 234-266; acc holds
\* seenIds and results.
RECURSIVE ParseSearchResults(_, _)
ParseSearchResults(blocks, acc) ==
  IF blocks = <<>> THEN acc
  ELSE LET b == Head(blocks) IN
       IF b.slug = NoSlug \/ AlreadySeen(b.slug, acc.seen)
         THEN ParseSearchResults(Tail(blocks), acc)
         ELSE ParseSearchResults(Tail(blocks),
                [seen |-> acc.seen \cup {b.slug},
                 results |-> Append(acc.results,
                   CatalogEntry(b.slug, DecodeEntities(BlockTitle(b))))])

\* Lines 279-294 of _searchWpFallback, over the slugs of the links found.
RECURSIVE ParseFallback(_, _)
ParseFallback(slugs, acc) ==
  IF slugs = <<>> THEN acc
  ELSE LET s == Head(slugs) IN
       IF s = NoSlug \/ AlreadySeen(s, acc.seen)
         THEN ParseFallback(Tail(slugs), acc)
         ELSE ParseFallback(Tail(slugs),
                [seen |-> acc.seen \cup {s},
                 results |-> Append(acc.results, CatalogEntry(s, Humanize(s)))])

\* _searchWpFallback(query), lines 268-301.
SearchWpFallback(resp) ==
  IF resp.ok THEN ParseFallback(resp.blocks, [seen |-> {}, results |-> <<>>]).results
  ELSE <<>>

\* The order in which the channel texts are parsed.
ParseOrder_Arrival(arrived) == arrived

\* Promise.all, line 188: the texts come in the order of the promises.
ParseOrder(arrived) == CHANNELS

\* Lines 189-191: the channel texts parsed one after the other with one
\* seenIds set and one results list.
RECURSIVE ParseChannels(_, _, _)
ParseChannels(order, chan, acc) ==
  IF order = <<>> THEN acc
  ELSE ParseChannels(Tail(order), chan,
         ParseSearchResults(ChannelHtml(chan[Head(order)]), acc))

\* Line 193: the fallback is needed.
NeedsFallback_Always(results) == TRUE

NeedsFallback(results) == results = <<>>

SearchInitVars ==
  /\ spc = "idle"
  /\ schan = [c \in {2, 3} |-> Pending]
  /\ sfallback = Pending
  /\ sresult = <<>>
  /\ sarrived = <<>>
  /\ srequests = <<>>

\* search(query), lines 152-188: both channel requests are issued.
SearchCall ==
  /\ spc = "idle"
  /\ spc' = "channels"
  /\ srequests' = <<[req |-> "channel", asid |-> CHANNELS[1]],
                    [req |-> "channel", asid |-> CHANNELS[2]]>>
  /\ UNCHANGED <<schan, sfallback, sresult, sarrived, notSearch>>

\* Lines 188-199, once both channel promises are settled.
ChannelsSettled(chan, arrived) ==
  LET results == ParseChannels(ParseOrder(arrived), chan,
                               [seen |-> {}, results |-> <<>>]).results
  IN  /\ sresult' = results
      /\ IF NeedsFallback(results)
           THEN /\ spc' = "fallback"
                /\ srequests' = Append(srequests, [req |-> "fallback"])
           ELSE /\ spc' = "done"
                /\ UNCHANGED srequests

\* A channel request is answered, lines 168-185.
ChannelAnswered(c, resp) ==
  /\ schan' = [schan EXCEPT ![c] = resp]
  /\ sarrived' = Append(sarrived, c)
  /\ IF \A d \in {2, 3} \ {c} : schan[d] # Pending
       THEN ChannelsSettled([schan EXCEPT ![c] = resp], Append(sarrived, c))
       ELSE UNCHANGED <<spc, sresult, srequests>>
  /\ UNCHANGED <<sfallback, notSearch>>

ChannelAnswers ==
  /\ spc = "channels"
  /\ \E c \in {2, 3} :
       /\ schan[c] = Pending
       /\ \E resp \in ChannelResponses : ChannelAnswered(c, resp)

\* The fallback request is answered, lines 271-300 and 195-199.
FallbackAnswers ==
  /\ spc = "fallback"
  /\ \E resp \in FallbackResponses :
       /\ sfallback' = resp
       /\ sresult' = sresult \o SearchWpFallback(resp)
  /\ spc' = "done"
  /\ UNCHANGED <<schan, sarrived, srequests, notSearch>>

(***************************************************************************)
(* Homepage scrape: getLatestEpisodes                                      *)
(***************************************************************************)
\* A page-item-detail card: whether it holds a post-title link, the slug
\* of that link, its stripped text, the chapter link (a chapter item, or
\* one without link when there is none) and the rating text.
Card(link, slug, text, chapter, rating) ==
  [link |-> link, slug |-> slug, text |-> text, chapter |-> chapter,
   rating |-> rating]

NoChapter == [link |-> FALSE, text |-> <<>>, href |-> <<>>]

Cards ==
  {Card(TRUE, s, t, c, None) :
     s \in Slugs \cup {NoSlug}, t \in {<<>>, LinkText},
     c \in {NoChapter, ChapterItem(1)}}
    \cup {Card(FALSE, NoSlug, <<>>, NoChapter, None),
          Card(TRUE, <<"naruto">>, LinkText, NoChapter, "8.5")}

LatestResponses == TransportFailures \cup {Html(c) : c \in SeqsUpTo(Cards, MaxCards)}

\* Lines 349-358.
LatestEntry(card) ==
  [id |-> card.slug,
   title |-> DecodeEntities(card.text),
   cover |-> "", type |-> "TV", year |-> None,
   rating |-> card.rating,
   latestEpisode |->
     IF card.chapter.link
       THEN ExtractEpisodeNumber(card.chapter.text, card.chapter.href)
       ELSE -1,
   latestEpisodeId |-> card.chapter.href]

\* Lines 317-359: the cards in document order; acc holds seenIds and results.
RECURSIVE ParseCards(_, _)
ParseCards(cards, acc) ==
  IF cards = <<>> THEN acc
  ELSE LET c == Head(cards) IN
       IF ~c.link \/ c.slug = NoSlug \/ AlreadySeen(c.slug, acc.seen)
         THEN ParseCards(Tail(cards), acc)
         ELSE ParseCards(Tail(cards),
                [seen |-> acc.seen \cup {c.slug},
                 results |-> Append(acc.results, LatestEntry(c))])

LatestInitVars ==
  /\ lpc = "idle"
  /\ lpage = Pending
  /\ lresult = NoResult

\* What getLatestEpisodes gives when the homepage request failed.
LatestFailed_Rethrow == Failure("HTTP error")

\* Lines 362-365: the error is caught and an empty list returned.
LatestFailed == [kind |-> "ok", list |-> <<>>]

\* getLatestEpisodes(), lines 305-307: the homepage is requested.
GetLatestEpisodesCall ==
  /\ lpc = "idle"
  /\ lpc' = "page"
  /\ UNCHANGED <<lpage, lresult, notLatest>>

\* Lines 308-365: the request is answered; a failure is caught (362-364).
LatestAnswers ==
  /\ lpc = "page"
  /\ \E resp \in LatestResponses :
       /\ lpage' = resp
       /\ lresult' =
            IF resp.ok
              THEN [kind |-> "ok",
                    list |-> ParseCards(resp.blocks, [seen |-> {}, results |-> <<>>]).results]
              ELSE LatestFailed
  /\ lpc' = "done"
  /\ UNCHANGED notLatest

(***************************************************************************)
(* Detail record: getAnimeInfo                                             *)
(***************************************************************************)
\* The anime page: the stripped text of its post-title heading (empty when
\* there is none), its type item and its year item (None when absent).
InfoPages ==
  {[ok |-> TRUE, heading |-> h, type |-> t, year |-> y] :
     h \in {<<>>, HeadingText}, t \in {None, "Movie"}, y \in {None, "2020"}}

InfoResponses == TransportFailures \cup InfoPages

InfoInitVars ==
  /\ ipc = "idle"
  /\ ipage = Pending
  /\ iresult = NoResult

\* getAnimeInfo(animeId), lines 429-432: the anime page is requested.
GetAnimeInfoCall ==
  /\ ipc = "idle"
  /\ ipc' = "page"
  /\ UNCHANGED <<ipage, iresult, notInfo>>

\* Lines 433 and 478-481: no page; null is returned.
InfoPageFails ==
  /\ ipc = "page"
  /\ \E resp \in TransportFailures : ipage' = resp
  /\ iresult' = [kind |-> "null"]
  /\ ipc' = "done"
  /\ UNCHANGED notInfo

\* Lines 435-448: the page arrives; the cover lookup is awaited.
InfoPageArrives ==
  /\ ipc = "page"
  /\ \E page \in InfoPages : ipage' = page
  /\ ipc' = "cover"
  /\ UNCHANGED <<iresult, notInfo>>

\* Lines 448-477: _fetchCoverForAnime has returned.
InfoCoverResolved ==
  /\ ipc = "cover"
  /\ \E slug \in Slugs, cover \in Covers :
       iresult' =
         [kind |-> "ok",
          info |-> [id |-> slug,
                    title |-> DecodeEntities(
                      IF ipage.heading # <<>> THEN ipage.heading ELSE Humanize(slug)),
                    cover |-> cover,
                    type |-> IF ipage.type = None THEN "TV" ELSE ipage.type,
                    year |-> ipage.year]]
  /\ ipc' = "done"
  /\ UNCHANGED <<ipage, notInfo>>

(***************************************************************************)
(* Capability boundary: handleAction (extension/background.js) and the     *)
(* message relay (extension/content.js)                                    *)
(***************************************************************************)
SEARCH_CACHE_TTL == 120000

\* The operations handleAction knows, in the order of its code.
KnownActions ==
  {"ping", "search", "getEpisodes", "getAnimeInfo", "getLatestEpisodes",
   "retryCovers", "getVideoUrl"}

ActionNames == KnownActions \cup {"download"}

\* payload.source: absent, the registered source, a name the registry
\* does not hold, and a name every object literal inherits.
SourceNames == {"", "voiranime", "nyaa", "constructor"}

\* Line 53: payload?.source || "voiranime".
SourceNameOf(req) == IF req.source = "" THEN "voiranime" ELSE req.source

\* Line 54: sources[sourceName] of the object literal of lines 3-5.
Registry(name) ==
  IF name = "voiranime" THEN "source"
  ELSE IF name = "constructor" THEN "inherited"
  ELSE "undefined"

\* An entity as a source operation returns it: no source tag yet.
Entity(kind, id) == [kind |-> kind, id |-> id, source |-> None, cover |-> ""]

EntityIds == {"a", "b"}

\* The items of a retryCovers payload: entities the page holds, tagged or not.
RetryItems ==
  {[kind |-> "catalog", id |-> "a", source |-> s, cover |-> ""] :
     s \in {None, "voiranime", "other"}}

Messages ==
  {[action |-> a, source |-> s, tab |-> t, items |-> <<>>] :
     a \in ActionNames, s \in SourceNames, t \in BOOLEAN}
    \cup {[action |-> "retryCovers", source |-> s, tab |-> t, items |-> <<i>>] :
            s \in SourceNames, t \in BOOLEAN, i \in RetryItems}

\* An error message: its fixed text and the identifiers it contains.
ErrorMessage(text, names) == [text |-> text, names |-> names]

OkResponse(data) == [kind |-> "ok", data |-> data]

\* Lines 40-43 of background.js: { error: err.message }.
ErrorResponse(msg) == [kind |-> "error", error |-> msg]

\* The message relay, content.js lines 26-50: what the page is posted.
RelayResponse(resp) ==
  IF resp.kind = "error"
    THEN [success |-> FALSE, error |-> resp.error, data |-> <<>>]
    ELSE [success |-> TRUE, error |-> ErrorMessage("", {}), data |-> resp.data]

\* Lines 69, 90, 95: the entity gets the source tag.
Tagged(e, name) == [e EXCEPT !.source = name]

TagAll(list, name) == [i \in DOMAIN list |-> Tagged(list[i], name)]

\* Line 102: r.source = r.source || sourceName.
TagMissing(list, name) ==
  [i \in DOMAIN list |->
     IF list[i].source = None THEN Tagged(list[i], name) ELSE list[i]]

\* The tag of a cover patch when it is sent.
PatchTag_Keep(item, name) == item.source

\* Lines 76 and 107: p.source = sourceName.
PatchTag(item, name) == name

\* Lines 11-13: the keys of searchCache, source name and query; the
\* model has one query.
SearchKeys == {name \in SourceNames : Registry(name) # "undefined"}

\* Lines 15-24: getCachedSearch.
GetCachedSearch(name) ==
  IF searchCache[name] = NoEntry THEN NoEntry
  ELSE IF now - searchCache[name].at > SEARCH_CACHE_TTL THEN NoEntry
  ELSE searchCache[name]

\* Lines 19-21: an expired entry is deleted by the lookup.
CacheAfterLookup(name) ==
  IF searchCache[name] # NoEntry /\ now - searchCache[name].at > SEARCH_CACHE_TTL
    THEN [searchCache EXCEPT ![name] = NoEntry]
    ELSE searchCache

\* What the operations of the source can return, by action.
OperationResults(action) ==
  IF action = "search"
    THEN {OkResponse(l) : l \in {<<>>, <<Entity("catalog", "a")>>,
                                 <<Entity("catalog", "a"), Entity("catalog", "b")>>}}
  ELSE IF action = "getLatestEpisodes"
    THEN {OkResponse(l) : l \in {<<>>, <<Entity("latest", "a")>>}}
  ELSE IF action = "getAnimeInfo"
    THEN {OkResponse(l) : l \in {<<>>, <<Entity("detail", "a")>>}}
  ELSE IF action = "getEpisodes"
    THEN {OkResponse(l) : l \in {<<>>, <<Entity("episode", "a")>>}}
           \cup {ErrorResponse(ErrorMessage("Failed to fetch anime page", {}))}
  ELSE {OkResponse(<<[kind |-> "video", id |-> "a", source |-> None, cover |-> ""]>>),
        ErrorResponse(ErrorMessage("Could not find video URL on episode page", {}))}

ActionInitVars ==
  /\ apc = "idle"
  /\ areq = [action |-> "ping", source |-> "", tab |-> FALSE, items |-> <<>>]
  /\ aresp = Pending
  /\ ainvoked = <<>>
  /\ searchCache = [name \in SearchKeys |-> NoEntry]
  /\ aenrich = {}
  /\ apushed = {}
  /\ anreq = 0

\* The page is answered: sendResponse, then the relay.
Respond(resp) ==
  /\ aresp' = RelayResponse(resp)
  /\ apc' = "done"

\* Lines 59-120 up to the first await, for a name the registry answers.
\* A call of an operation the looked-up value does not have is a TypeError.
Dispatch(req, name) ==
  IF req.action \notin KnownActions
    THEN /\ Respond(ErrorResponse(ErrorMessage("Action inconnue", {req.action})))
         /\ ainvoked' = <<>>
         /\ UNCHANGED <<searchCache, aenrich>>
  ELSE IF req.action = "search" /\ GetCachedSearch(name) # NoEntry
    THEN /\ Respond(OkResponse(GetCachedSearch(name).results))
         /\ ainvoked' = <<>>
         /\ UNCHANGED <<searchCache, aenrich>>
  ELSE IF req.action = "retryCovers"
    THEN IF req.items = <<>> \/ ~req.tab
           THEN /\ Respond(OkResponse(<<>>))
                /\ ainvoked' = <<>>
                /\ UNCHANGED <<searchCache, aenrich>>
         ELSE IF Registry(name) = "source"
           THEN /\ Respond(OkResponse(<<>>))
                /\ ainvoked' = <<"enrichCoversAsync">>
                /\ aenrich' = aenrich \cup
                     {[item |-> TagMissing(req.items, name)[i], name |-> name,
                       cachedAt |-> 0] : i \in DOMAIN req.items}
                /\ UNCHANGED searchCache
         ELSE /\ Respond(ErrorResponse(
                   ErrorMessage("is not a function", {"source", "enrichCoversAsync"})))
              /\ ainvoked' = <<>>
              /\ UNCHANGED <<searchCache, aenrich>>
  ELSE IF Registry(name) = "source"
    THEN /\ apc' = "op"
         /\ aresp' = Pending
         /\ ainvoked' = <<req.action>>
         /\ searchCache' = IF req.action = "search" THEN CacheAfterLookup(name) ELSE searchCache
         /\ UNCHANGED aenrich
  ELSE /\ Respond(ErrorResponse(ErrorMessage("is not a function", {"source", req.action})))
       /\ ainvoked' = <<>>
       /\ searchCache' = IF req.action = "search" THEN CacheAfterLookup(name) ELSE searchCache
       /\ UNCHANGED aenrich

\* chrome.runtime.onMessage, lines 30-58: a message arrives.
HandleAction(req) ==
  /\ areq' = req
  /\ anreq' = anreq + 1
  /\ IF req.action = "ping"
       THEN /\ Respond(OkResponse(<<>>))
            /\ ainvoked' = <<>>
            /\ UNCHANGED <<searchCache, aenrich>>
     ELSE IF Registry(SourceNameOf(req)) = "undefined"
       THEN /\ Respond(ErrorResponse(
                 ErrorMessage("Source inconnue", {SourceNameOf(req)})))
            /\ ainvoked' = <<>>
            /\ UNCHANGED <<searchCache, aenrich>>
     ELSE Dispatch(req, SourceNameOf(req))
  /\ UNCHANGED <<now, apushed, notAction>>

MessageArrives ==
  /\ apc \in {"idle", "done"}
  /\ anreq < MaxMessages
  /\ \E req \in Messages : HandleAction(req)

\* Lines 68-117: the awaited operation of the source has settled.
OperationSettled(res) ==
  LET name == SourceNameOf(areq)
      tagged == TagAll(res.data, name)
  IN  /\ IF res.kind = "error"
           THEN /\ Respond(res)
                /\ UNCHANGED <<searchCache, aenrich>>
         ELSE IF areq.action = "search"
           THEN /\ Respond(OkResponse(tagged))
                /\ searchCache' =
                     [searchCache EXCEPT ![name] = [results |-> tagged, at |-> now]]
                /\ aenrich' =
                     IF areq.tab
                       THEN aenrich \cup
                              {[item |-> tagged[i], name |-> name, cachedAt |-> now] :
                                 i \in DOMAIN tagged}
                       ELSE aenrich
         ELSE IF areq.action \in {"getAnimeInfo", "getLatestEpisodes"}
           THEN /\ Respond(OkResponse(tagged))
                /\ UNCHANGED <<searchCache, aenrich>>
         ELSE /\ Respond(OkResponse(res.data))
              /\ UNCHANGED <<searchCache, aenrich>>
      /\ UNCHANGED <<now, areq, ainvoked, apushed, anreq, notAction>>

OperationSettles ==
  /\ apc = "op"
  /\ \E res \in OperationResults(areq.action) : OperationSettled(res)

\* enrichCoversAsync lines 222-226 and the cached list: r.cover is set on
\* the entity itself, which the search cache entry of that search holds.
CoverSetInCache_Copies(x) == searchCache

CoverSetInCache(x) ==
  IF searchCache[x.name] # NoEntry /\ x.cachedAt = searchCache[x.name].at
    THEN [searchCache EXCEPT ![x.name].results =
            [i \in DOMAIN searchCache[x.name].results |->
               IF searchCache[x.name].results[i].id = x.item.id
                 THEN [searchCache[x.name].results[i] EXCEPT !.cover = "img"]
                 ELSE searchCache[x.name].results[i]]]
    ELSE searchCache

\* enrichCoversAsync found a cover: the patch is sent to the tab (lines
\* 75-81, 106-112).
CoverPatched ==
  /\ \E x \in aenrich :
       /\ aenrich' = aenrich \ {x}
       /\ apushed' = apushed \cup
            {[kind |-> "patch", id |-> x.item.id,
              source |-> PatchTag(x.item, x.name), cover |-> "img",
              by |-> x.name, at |-> x.cachedAt]}
       /\ searchCache' = CoverSetInCache(x)
  /\ UNCHANGED <<now, apc, areq, aresp, ainvoked, anreq, notAction>>

\* enrichCoversAsync found no cover for the item (line 223).
CoverNotFound ==
  /\ \E x \in aenrich : aenrich' = aenrich \ {x}
  /\ UNCHANGED <<now, apc, areq, aresp, ainvoked, searchCache, apushed, anreq,
                 notAction>>

\* More than SEARCH_CACHE_TTL passes.
ActionTick ==
  /\ now < StartNow + SEARCH_CACHE_TTL
  /\ now' = now + SEARCH_CACHE_TTL + 1
  /\ UNCHANGED <<actionVars, notAction>>

(***************************************************************************)
(* Calls of _extractEpisodeNumber                                          *)
(***************************************************************************)
EpisodeNumbers == {7, 12}

Tokens == {Word, Dash, Marker} \cup {Num(n) : n \in EpisodeNumbers}

\* Link texts, as token sequences.
Texts == SeqsUpTo(Tokens, MaxTokens)

\* Hrefs, as their dash-separated parts: without marker, or ending in
\* -<number>-<marker>.
Hrefs == {<<Word>>} \cup {<<Word, Num(n), Marker>> : n \in EpisodeNumbers}

NumberInitVars ==
  /\ xpc = "idle"
  /\ xtext = <<>>
  /\ xhref = <<>>
  /\ xnum = 0

\* _extractEpisodeNumber(text, href) is called and returns.
ExtractEpisodeNumberCall ==
  /\ xpc = "idle"
  /\ \E text \in Texts, href \in Hrefs :
       /\ xtext' = text
       /\ xhref' = href
       /\ xnum' = ExtractEpisodeNumber(text, href)
  /\ xpc' = "done"
  /\ UNCHANGED notNumber

(***************************************************************************)
(* Jikan candidate ranking: _bestJikanMatch                                *)
(*                                                                         *)
(* A string is the sequence of its characters.                             *)
(***************************************************************************)
LowerCase(c) == IF c = "A" THEN "a" ELSE IF c = "B" THEN "b" ELSE c

IsAlphaNum(c) == c \in {"a", "b", "c", "2"}

\* norm: the string as it is compared.
Norm_KeepCase(s) == SelectSeq(s, LAMBDA c : IsAlphaNum(LowerCase(c)))

\* norm, line 1122: s.toLowerCase().replace(/[^a-z0-9]/g, "").
Norm(s) ==
  SelectSeq([i \in DOMAIN s |-> LowerCase(s[i])], IsAlphaNum)

\* String.prototype.includes.
Includes(longer, shorter) ==
  \E k \in 0..(Len(longer) - Len(shorter)) :
    SubSeq(longer, k + 1, k + Len(shorter)) = shorter

\* Lines 1145-1146: the length of the common prefix.
CommonPrefix(shorter, longer) ==
  Greatest({k \in 0..Len(shorter) : SubSeq(shorter, 1, k) = SubSeq(longer, 1, k)})

\* A score, as a fraction.
Fraction(num, den) == [num |-> num, den |-> den]

\* Lines 1138-1147: the score of a title against the query, both normalised.
Score_PrefixOnly(q, n) ==
  LET shorter == IF Len(q) <= Len(n) THEN q ELSE n
      longer == IF Len(q) > Len(n) THEN q ELSE n
  IN  Fraction(CommonPrefix(shorter, longer), 2 * Len(longer))

\* Lines 1139-1147: the score of one normalised title n against q.
Score(q, n) ==
  LET shorter == IF Len(q) <= Len(n) THEN q ELSE n
      longer == IF Len(q) > Len(n) THEN q ELSE n
  IN  IF Includes(longer, shorter)
        THEN Fraction(Len(shorter), Len(longer))
        ELSE Fraction(CommonPrefix(shorter, longer), 2 * Len(longer))

\* Line 1148: score > bestScore.
Greater(a, b) == a.num * b.den > b.num * a.den

\* Lines 1128-1133: the titles of an item that are set.
TitlesOf(item) ==
  SelectSeq(<<item.title, item.english>> \o item.synonyms, LAMBDA t : t # <<>>)

\* Lines 1127-1153: the loops; k is the item, j the title of it looked at,
\* best the index of bestItem and score bestScore.
RECURSIVE MatchLoop(_, _, _, _, _, _)
MatchLoop(q, items, k, j, best, score) ==
  IF k > Len(items) THEN best
  ELSE IF j > Len(TitlesOf(items[k])) THEN MatchLoop(q, items, k + 1, 1, best, score)
  ELSE LET n == Norm(TitlesOf(items[k])[j]) IN
       IF n = q THEN k
       ELSE IF Greater(Score(q, n), score)
         THEN MatchLoop(q, items, k, j + 1, k, Score(q, n))
         ELSE MatchLoop(q, items, k, j + 1, best, score)

\* _bestJikanMatch(query, items), lines 1121-1155; bestItem starts as
\* items[0], which is undefined for an empty list.
BestJikanMatch(query, items) ==
  MatchLoop(Norm(query), items, 1, 1, IF items = <<>> THEN 0 ELSE 1, Fraction(-1, 1))

\* "ba", "Ab a", "A b", "ab": a title unrelated to the query "a b", one
\* that contains it, and two that equal it once normalised.
Unrelated == <<"b", "a">>

Longer == <<"A", "b", " ", "a">>

Exact == <<"A", " ", "b">>

ExactToo == <<"a", "b">>

JikanItem(title, english, synonyms) ==
  [title |-> title, english |-> english, synonyms |-> synonyms]

\* "ac", "cab", "cccccccab": for the query "a b", a title that only
\* starts like it, and a short and a long title that contain it.
PrefixOnlyTitle == <<"a", "c">>

Inner == <<"c", "a", "b">>

LongTitle == <<"c", "c", "c", "c", "c", "c", "c", "a", "b">>

JikanItems ==
  {JikanItem(t, e, s) :
     t \in {Unrelated, Longer, Exact}, e \in {<<>>, ExactToo}, s \in {<<>>, <<Exact>>}}
    \cup {JikanItem(t, <<>>, <<>>) : t \in {PrefixOnlyTitle, Inner, LongTitle}}

\* The lower-cased, trimmed queries of _fetchCoverByQuery, line 1086.
Queries == {<<"a", " ", "b">>, <<"b">>}

MatchInitVars ==
  /\ bpc = "idle"
  /\ bquery = <<>>
  /\ bitems = <<>>
  /\ bresult = 0

\* The non-empty item lists of _fetchCoverByQuery, lines 1104-1109.
ItemLists == SeqsUpTo(JikanItems, MaxItems) \ {<<>>}

\* _bestJikanMatch(query, items) is called and returns.
BestJikanMatchCall ==
  /\ bpc = "idle"
  /\ \E query \in Queries, items \in ItemLists :
       /\ bquery' = query
       /\ bitems' = items
       /\ bresult' = BestJikanMatch(query, items)
  /\ bpc' = "done"
  /\ UNCHANGED notMatch

(***************************************************************************)
(* Cover enrichment: enrichCoversAsync                                     *)
(*                                                                         *)
(* A result is its index in the results array; a patch names the result it *)
(* was built from and carries the cover.                                   *)
(***************************************************************************)
EnrichInitVars ==
  /\ npc = "idle"
  /\ nresults = 0
  /\ nonUpdate = FALSE
  /\ ncover = <<>>
  /\ pending = <<>>
  /\ scheduled = FALSE
  /\ timerArmed = FALSE
  /\ nbatches = <<>>
  /\ nlate = FALSE

\* What _fetchCoverForAnime returns: a cover URL or "".
LookupCovers == {"", "cover1", "cover2"}

Patch(r, cover) == [id |-> r, cover |-> cover]

\* scheduleNotify, lines 210-219: whether a timer is set after it ran.
ScheduleNotify(onUpdate, queue, handle) ==
  IF ~onUpdate \/ Len(queue) = 0 THEN handle
  ELSE TRUE

ClearTimeout_Skipped(handle, armed) == armed

\* Line 230: clearTimeout runs when scheduled holds a handle.
ClearTimeout(handle, armed) == IF handle THEN FALSE ELSE armed

\* Line 231: the final flush passes what is left in pending.
FinalFlush(onUpdate, queue, batches) ==
  IF Len(queue) > 0 /\ onUpdate THEN Append(batches, queue) ELSE batches

\* Lines 221-229 have all settled: Promise.all resolves.
AllSettled(covers) == \A r \in DOMAIN covers : covers[r] # "wait"

\* enrichCoversAsync(results, onUpdate) is called, lines 206-221; with an
\* empty array Promise.all resolves at once and lines 230-231 run.
EnrichCoversAsyncCall ==
  /\ npc = "idle"
  /\ \E n \in 0..MaxResults, onUpdate \in BOOLEAN :
       /\ nresults' = n
       /\ nonUpdate' = onUpdate
       /\ ncover' = [r \in 1..n |-> "wait"]
       /\ npc' = IF n = 0 THEN "done" ELSE "running"
  /\ pending' = <<>>
  /\ scheduled' = FALSE
  /\ timerArmed' = FALSE
  /\ nbatches' = <<>>
  /\ nlate' = FALSE
  /\ UNCHANGED notEnrich

\* The lookup of result r settles, lines 223-228; when it is the last one
\* the call goes on with lines 230-231 before any timer can run.
CoverLookupSettles(r) ==
  /\ npc = "running"
  /\ r \in DOMAIN ncover
  /\ ncover[r] = "wait"
  /\ \E jikanCover \in LookupCovers :
       LET covers == [ncover EXCEPT ![r] = jikanCover]
           queue == IF jikanCover # "" THEN Append(pending, Patch(r, jikanCover)) ELSE pending
           handle == IF jikanCover # ""
                       THEN ScheduleNotify(nonUpdate, queue, scheduled) ELSE scheduled
           armed == IF handle /\ ~scheduled THEN TRUE ELSE timerArmed
       IN  /\ ncover' = covers
           /\ pending' = queue
           /\ scheduled' = handle
           /\ IF AllSettled(covers)
                THEN /\ timerArmed' = ClearTimeout(handle, armed)
                     /\ nbatches' = FinalFlush(nonUpdate, queue, nbatches)
                     /\ npc' = "done"
                ELSE /\ timerArmed' = armed
                     /\ nbatches' = nbatches
                     /\ npc' = npc
  /\ UNCHANGED <<nresults, nonUpdate, nlate>>
  /\ UNCHANGED notEnrich

\* The 50 ms timer fires, lines 214-218.
NotifyTimerFires ==
  /\ timerArmed
  /\ timerArmed' = FALSE
  /\ scheduled' = FALSE
  /\ pending' = <<>>
  /\ nbatches' = Append(nbatches, pending)
  /\ nlate' = (nlate \/ npc = "done")
  /\ UNCHANGED <<npc, nresults, nonUpdate, ncover>>
  /\ UNCHANGED notEnrich

(***************************************************************************)
(* Message relay: extRequest (front/src/api.js), the content script's      *)
(* listener (extension/content.js) and the background's onMessage listener *)
(*                                                                         *)
(* crypto.randomUUID draws an id no earlier call has drawn.  The window    *)
(* dispatches posted messages one at a time, in order, to every listener   *)
(* registered at that moment.  A timer of extRequest may fire at any       *)
(* moment while it is set.                                                 *)
(***************************************************************************)
Requests == 1..NumRequests

Uuids == 1..NumUuids

RelayInitVars ==
  /\ qpc = [r \in Requests |-> "idle"]
  /\ qid = [r \in Requests |-> 0]
  /\ qsettled = [r \in Requests |-> 0]
  /\ qby = [r \in Requests |-> -1]
  /\ wqueue = <<>>
  /\ relayed = {}
  /\ nresp = [u \in Uuids |-> 0]
  /\ wseen = {}

\* api.js line 35 and content.js lines 28-36, 40-49: the two messages.
RequestMessage(id) == [type |-> "ANIME_EXT_REQUEST", id |-> id, success |-> FALSE]

ResponseMessage(id, success) == [type |-> "ANIME_EXT_RESPONSE", id |-> id, success |-> success]

\* What the background's sendResponse, or the closing of the port, hands
\* to the callback of content.js line 26.
RelayOutcomes == {"result", "error", "lastError"}

\* content.js lines 27-49: success of the response posted.
SuccessOf(outcome) == outcome = "result"

HandlerAccepts_AnyId(msg, id) == msg.type = "ANIME_EXT_RESPONSE"

\* api.js lines 20-21: the messages the handler of the call with this id
\* does not return early on.
HandlerAccepts(msg, id) == msg.type = "ANIME_EXT_RESPONSE" /\ msg.id = id

\* extRequest(action, payload) runs the executor, api.js lines 11-36.
ExtRequestCall(r) ==
  /\ qpc[r] = "idle"
  /\ \E id \in Uuids \ {qid[q] : q \in Requests} :
       /\ qid' = [qid EXCEPT ![r] = id]
       /\ wqueue' = Append(wqueue, RequestMessage(id))
  /\ qpc' = [qpc EXCEPT ![r] = "waiting"]
  /\ UNCHANGED <<qsettled, qby, relayed, nresp, wseen>>
  /\ UNCHANGED notRelay

\* The window dispatches its oldest message: content.js lines 20-26 for a
\* request, api.js lines 19-31 in every handler still registered.
DispatchMessage ==
  /\ wqueue # <<>>
  /\ LET msg == Head(wqueue)
         hit == {r \in Requests : qpc[r] = "waiting" /\ HandlerAccepts(msg, qid[r])}
     IN  /\ wqueue' = Tail(wqueue)
         /\ relayed' = IF msg.type = "ANIME_EXT_REQUEST" THEN relayed \cup {msg.id} ELSE relayed
         /\ wseen' = IF msg.type = "ANIME_EXT_RESPONSE" THEN wseen \cup {msg.id} ELSE wseen
         /\ qpc' = [r \in Requests |->
                      IF r \in hit THEN (IF msg.success THEN "resolved" ELSE "rejected")
                      ELSE qpc[r]]
         /\ qsettled' = [r \in Requests |-> IF r \in hit THEN qsettled[r] + 1 ELSE qsettled[r]]
         /\ qby' = [r \in Requests |-> IF r \in hit THEN msg.id ELSE qby[r]]
  /\ UNCHANGED <<qid, nresp>>
  /\ UNCHANGED notRelay

\* The callback of chrome.runtime.sendMessage runs, content.js lines
\* 26-50, after background.js lines 30-46 answered or the port closed.
RelayCallback(id) ==
  /\ id \in relayed
  /\ \E outcome \in RelayOutcomes :
       wqueue' = Append(wqueue, ResponseMessage(id, SuccessOf(outcome)))
  /\ relayed' = relayed \ {id}
  /\ nresp' = [nresp EXCEPT ![id] = @ + 1]
  /\ UNCHANGED <<qpc, qid, qsettled, qby, wseen>>
  /\ UNCHANGED notRelay

\* The timer of api.js lines 14-17 fires.
RequestTimeout(r) ==
  /\ qpc[r] = "waiting"
  /\ qpc' = [qpc EXCEPT ![r] = "timedout"]
  /\ qsettled' = [qsettled EXCEPT ![r] = @ + 1]
  /\ qby' = [qby EXCEPT ![r] = 0]
  /\ UNCHANGED <<qid, wqueue, relayed, nresp, wseen>>
  /\ UNCHANGED notRelay

(***************************************************************************)
(* Specifications                                                          *)
(***************************************************************************)
Init ==
  /\ now = StartNow
  /\ GateInitVars
  /\ CacheInitVars
  /\ VideoInitVars
  /\ EpisodesInitVars
  /\ CoverInitVars
  /\ SearchInitVars
  /\ LatestInitVars
  /\ InfoInitVars
  /\ ActionInitVars
  /\ NumberInitVars
  /\ MatchInitVars
  /\ EnrichInitVars
  /\ RelayInitVars

NextGate ==
  \/ \E p \in Callers : CachedLookup(p)
  \/ \E p \in Callers : AcquireCall(p)
  \/ \E p \in Callers : PollWake(p)
  \/ \E p \in Callers : SpacingWake(p)
  \/ \E p \in Callers : Release(p)
  \/ GateTick

SpecGate == Init /\ [][NextGate]_vars

\* The gate under an unending stream of calls: every caller may call
\* again, and time is not counted.
NextGateLive ==
  \/ \E p \in Callers : AcquireCall(p)
  \/ \E p \in Callers : TimerFires(p)
  \/ \E p \in Callers : Release(p)
  \/ \E p \in Callers : NextCall(p)

\* Timers fire and requests complete.
GateFairness ==
  \A p \in Callers : WF_vars(TimerFires(p)) /\ WF_vars(Release(p))

SpecGateLive == Init /\ [][NextGateLive]_vars /\ GateFairness

NextCache ==
  \/ \E k \in Keys, c \in Covers : CacheSet(k, c)
  \/ \E w \in Keys \X Covers : DbPut(w)
  \/ \E w \in Keys \X Covers : DbFail(w)
  \/ \E r \in Readers, k \in Keys : CacheGetStart(r, k)
  \/ \E r \in Readers : CacheGetDb(r)
  \/ Restart
  \/ CacheTick

SpecCache == Init /\ [][NextCache]_vars

NextVideo ==
  \/ GetVideoUrlCall
  \/ PageFails
  \/ PageArrives
  \/ EmbedAnswered
  \/ AjaxAnswered

SpecVideo == Init /\ [][NextVideo]_vars

NextEpisodes ==
  \/ GetEpisodesCall
  \/ EpisodesPageFails
  \/ EpisodesPageArrives

SpecEpisodes == Init /\ [][NextEpisodes]_vars

NextSearch ==
  \/ SearchCall
  \/ ChannelAnswers
  \/ FallbackAnswers

SpecSearch == Init /\ [][NextSearch]_vars

\* No operation of the source has been called yet.
NoOperation ==
  /\ spc = "idle"
  /\ lpc = "idle"
  /\ ipc = "idle"
  /\ epc = "idle"
  /\ vpc = "idle"

\* One call of one of the two list operations.
NextCatalog ==
  \/ NoOperation /\ SearchCall
  \/ ChannelAnswers
  \/ FallbackAnswers
  \/ NoOperation /\ GetLatestEpisodesCall
  \/ LatestAnswers

SpecCatalog == Init /\ [][NextCatalog]_vars

\* One call of one of the five page operations of the source.
NextOps ==
  \/ NoOperation /\ SearchCall
  \/ ChannelAnswers
  \/ FallbackAnswers
  \/ NoOperation /\ GetLatestEpisodesCall
  \/ LatestAnswers
  \/ NoOperation /\ GetAnimeInfoCall
  \/ InfoPageFails
  \/ InfoPageArrives
  \/ InfoCoverResolved
  \/ NoOperation /\ GetEpisodesCall
  \/ EpisodesPageFails
  \/ EpisodesPageArrives
  \/ NoOperation /\ GetVideoUrlCall
  \/ PageFails
  \/ PageArrives
  \/ EmbedAnswered
  \/ AjaxAnswered

SpecOps == Init /\ [][NextOps]_vars

NextAction ==
  \/ MessageArrives
  \/ OperationSettles
  \/ CoverPatched
  \/ CoverNotFound
  \/ ActionTick

SpecAction == Init /\ [][NextAction]_vars

NextNumber == ExtractEpisodeNumberCall

SpecNumber == Init /\ [][NextNumber]_vars

NextMatch == BestJikanMatchCall

SpecMatch == Init /\ [][NextMatch]_vars

NextEnrich ==
  \/ EnrichCoversAsyncCall
  \/ \E r \in 1..MaxResults : CoverLookupSettles(r)
  \/ NotifyTimerFires

SpecEnrich == Init /\ [][NextEnrich]_vars

NextRelay ==
  \/ \E r \in Requests : ExtRequestCall(r)
  \/ DispatchMessage
  \/ \E id \in Uuids : RelayCallback(id)
  \/ \E r \in Requests : RequestTimeout(r)

SpecRelay == Init /\ [][NextRelay]_vars

(***************************************************************************)
(* Claims about the admission gate                                         *)
(***************************************************************************)
Holders == {p \in Callers : gpc[p] = "holding"}

\* C1: the number of callers granted admission and not yet released never
\* exceeds JIKAN_CONCURRENCY.
C1_AtMostN == Cardinality(Holders) <= JIKAN_CONCURRENCY

\* C2: any two successive grants are at least JIKAN_DELAY_MS apart.
C2_Spacing == nGrants >= 2 => jikanLastStart - prevStart >= JIKAN_DELAY_MS

(***************************************************************************)
(* Claims about the cover cache                                            *)
(***************************************************************************)
IsMiss(e) == e # NoEntry /\ e.cover = ""

IsCover(e) == e # NoEntry /\ e.cover # ""

\* C9: a read that finds in the fast tier an empty-valued entry written
\* COVER_ERROR_TTL (10 s) or more ago does not return an empty-valued entry,
\* while a read that finds there a non-empty entry of that same age (and
\* younger than COVER_TTL) returns a non-empty entry for its key.
C9_TtlAsymmetry ==
  \A r \in Readers :
    rpc[r] = "done" =>
      /\ rcase[r] = "staleMiss" => ~IsMiss(rret[r])
      /\ rcase[r] = "agedCover" => IsCover(rret[r]) /\ rret[r].key = rkey[r]

C9_Witness ==
  /\ seen = {"staleMiss", "agedCover"}
  /\ \E r \in Readers :
       rpc[r] = "done" /\ rcase[r] = "staleMiss" /\ rret[r] = NoEntry

\* The durable tier holds no entry with an empty value.
DbNoEmpty == \A k \in Keys : ~IsMiss(db[k])

\* Every key written since the process started is in the fast tier.
FastWritten == \A k \in Keys : written[k] => memCache[k] # NoEntry

\* A completed read that began after a restart, for a key whose last stored
\* result (stored before the restart) was a miss.
ReadAfterRestart(r) == rpc[r] = "done" /\ rafter[r] /\ MissBefore(rkey[r])

Range(f) == {f[i] : i \in DOMAIN f}

VideoDone == vpc = "done"

VideoOk == vpc = "done" /\ vresult.kind = "ok"

NotFound == Failure("Could not find video URL on episode page")

\* The table entries that are embed candidates.
CandidateIdx(page) ==
  {i \in DOMAIN page.table :
     ~page.table[i].captcha /\ page.table[i].iframe # NoUrl}

\* The iframe scan finds nothing usable in the page text.
NoPageIframe(page) == \A i \in DOMAIN RawIframes(page) : Skipped(RawIframes(page)[i])

IsEmbedRequest(r) == r.req = "embed"

EmbedFetches == SelectSeq(vfetched, IsEmbedRequest)

\* C3: the strategies are entered in the order 1, 2, 3, 4; a result of
\* strategy k is returned only when strategies 1..k-1 produced nothing, no
\* strategy after k is entered, and no reading-content request is issued
\* unless strategies 1 and 2 produced nothing.
C3_StrategyOrder ==
  /\ \A i \in DOMAIN vtried : vtried[i] = i
  /\ AjaxRequest \in Range(vfetched) =>
       Len(vtried) >= 3 /\ CandidateIdx(vpage) = {} /\ NoPageIframe(vpage)
  /\ VideoOk =>
       /\ Len(vtried) = vresult.by
       /\ vresult.by >= 2 => CandidateIdx(vpage) = {}
       /\ vresult.by >= 3 => NoPageIframe(vpage)
       /\ vresult.by >= 4 => vajax = NoUrl
       /\ vresult.by <= 2 => AjaxRequest \notin Range(vfetched)

C3_Witness ==
  /\ VideoOk
  /\ vresult.by = 4
  /\ AjaxRequest \in Range(vfetched)
  /\ vpage.iframes # <<>>

\* Every strategy fails on the page (the reading-content request, when one
\* was issued, gave nothing).
AllFail ==
  /\ CandidateIdx(vpage) = {}
  /\ NoPageIframe(vpage)
  /\ vajax = NoUrl
  /\ vpage.video = NoUrl
  /\ vpage.script = NoUrl

\* C4: on a fetched page, getVideoUrl ends with the error "Could not find
\* video URL on episode page" exactly when all four strategies fail, and
\* every result it returns has a url.
C4_ExhaustionIsError ==
  VideoDone =>
    /\ vresult.kind = "ok" => vresult.url # NoUrl
    /\ vtried # <<>> => (AllFail <=> vresult = NotFound)
    /\ vtried = <<>> => vresult.kind = "error"

C4_Witness ==
  /\ VideoDone
  /\ vresult = NotFound
  /\ vtried = <<1, 2, 3, 4>>
  /\ AjaxRequest \in Range(vfetched)
  /\ vpage.table # <<>>

\* Rank of a URL in the fixed provider list; unknown providers last.
ProviderRank(u) ==
  IF "vidmoly" \in u.names THEN 1
  ELSE IF "voe" \in u.names THEN 2
  ELSE IF "f16px" \in u.names THEN 3
  ELSE IF "streamtape" \in u.names THEN 4
  ELSE IF "mail.ru" \in u.names THEN 5
  ELSE 6

\* a comes before b: by provider rank, then by position in the table.
Before(a, b) ==
  \/ ProviderRank(a.url) < ProviderRank(b.url)
  \/ ProviderRank(a.url) = ProviderRank(b.url) /\ a.name < b.name

\* C5: the candidates are in provider-priority order (unknown providers
\* last, in encountered order); the embed pages are fetched in that order,
\* one at a time, a candidate that resolves to nothing (a failed fetch
\* included) being followed by the next; the direct URL returned is the one
\* extracted from the first candidate that resolved, no later candidate is
\* fetched, and the referer is that candidate's embed URL.
C5_PriorityOrder ==
  /\ \A i, j \in DOMAIN vsources : i < j => Before(vsources[i], vsources[j])
  /\ Len(EmbedFetches) <= Len(vsources)
  /\ \A i \in DOMAIN EmbedFetches : EmbedFetches[i].url = vsources[i].url
  /\ \A i \in DOMAIN vres : i < Len(vres) => vres[i] = NoUrl
  /\ vpc = "embed" => Len(EmbedFetches) = Len(vres) + 1
  /\ VideoDone => Len(EmbedFetches) = Len(vres)
  /\ (VideoOk /\ vresult.by = 1 /\ vresult.type # "iframe") =>
       /\ vres # <<>>
       /\ vresult.url = vres[Len(vres)]
       /\ vresult.url # NoUrl
       /\ vresult.url.from = vsources[Len(vres)].url.id
       /\ vresult.referer = vsources[Len(vres)].url
       /\ vresult.sources = vsources

C5_Witness ==
  /\ VideoOk
  /\ vresult.by = 1
  /\ vresult.type # "iframe"
  /\ Len(vres) = 2
  /\ vsources[1].name > vsources[2].name
  /\ ProviderRank(vsources[1].url) < ProviderRank(vsources[2].url)

\* The candidate that comes before every other one.
TopCandidate(page) ==
  LET cand(i) == [name |-> i, url |-> Https(page.table[i].iframe)]
      top == CHOOSE i \in CandidateIdx(page) :
               \A j \in CandidateIdx(page) \ {i} : Before(cand(i), cand(j))
  IN  cand(top).url

\* C6: when the source table has a candidate and no candidate resolves to
\* a direct URL, getVideoUrl returns the top-priority candidate's embed URL
\* with type "iframe", the page URL as referer, and enters no other strategy.
C6_IframeMode ==
  (/\ VideoDone
   /\ CandidateIdx(vpage) # {}
   /\ \A i \in DOMAIN vres : vres[i] = NoUrl) =>
     /\ vresult.kind = "ok"
     /\ vresult.type = "iframe"
     /\ vresult.url = TopCandidate(vpage)
     /\ vresult.referer = PageUrl
     /\ vtried = <<1>>
     /\ Len(vres) = Cardinality(CandidateIdx(vpage))
     /\ AjaxRequest \notin Range(vfetched)

C6_Witness ==
  /\ VideoOk
  /\ vresult.type = "iframe"
  /\ Len(vres) = 2
  /\ vsources[1].name = 2
  /\ vpage.iframes # <<>>

\* The page holds one captcha-marked decoy and one vidmoly embed whose page
\* carries the player configuration.
DecoyFixture ==
  /\ Len(vpage.table) = 2
  /\ \E i \in 1..2 : vpage.table[i].captcha
  /\ \E i \in 1..2 :
       ~vpage.table[i].captcha /\ vpage.table[i].iframe # NoUrl
         /\ "vidmoly" \in vpage.table[i].iframe.names
  /\ vres = <<Direct(vsources[1].url, "m3u8")>>

\* C7: a fragment that matches the captcha marker is never a candidate, is
\* never fetched, is in no returned candidate list and is never returned
\* as the video URL; the decoy fixture resolves to the genuine embed's
\* manifest URL.
C7_DecoyNeverUsed ==
  /\ \A i \in DOMAIN vsources :
       ~vpage.table[vsources[i].name].captcha /\ vsources[i].url # DecoyUrl
  /\ EmbedRequest(DecoyUrl) \notin Range(vfetched)
  /\ VideoOk =>
       /\ vresult.url # DecoyUrl
       /\ \A i \in DOMAIN vresult.sources : vresult.sources[i].url # DecoyUrl
  /\ (VideoDone /\ vres # <<>> /\ DecoyFixture) =>
       vresult.kind = "ok" /\ vresult.url = vres[1] /\ vresult.url.id = "m3u8"

(***************************************************************************)
(* Claims about getEpisodes                                                *)
(***************************************************************************)
\* C8: the list getEpisodes returns is in ascending episode-number order,
\* whatever the order of the chapter items in the page.
C8_Ascending ==
  (epc = "done" /\ eresult.kind = "ok") =>
    \A i, j \in DOMAIN eresult.episodes :
      i < j => eresult.episodes[i].number <= eresult.episodes[j].number

NextCover ==
  \/ FetchCoverForAnimeCall
  \/ FetchCoverByQueryCall
  \/ JikanAnswered
  \/ CoverDbPut
  \/ CoverDbFail
  \/ CoverTick

SpecCover == Init /\ [][NextCover]_vars

(***************************************************************************)
(* Claims about the cover lookup                                           *)
(***************************************************************************)
\* C11: a cover lookup that the API answered with status 429 yields no
\* cover and stores no empty-valued entry under any key, and a lookup of
\* the same anime repeated immediately is not answered from an
\* empty-valued cache entry.
C11_No429Negative ==
  /\ (cpc = "done" /\ cans = {"429"}) => cret = "" /\ cneg = {}
  /\ (cpc = "done" /\ crepeat) => ~cfromNeg

(***************************************************************************)
(* Claims about search and getLatestEpisodes                               *)
(***************************************************************************)
\* The link blocks of both channels, first channel first.
ChannelBlocks == ChannelHtml(schan[3]) \o ChannelHtml(schan[2])

\* The links of the fallback page as link blocks without heading or text.
FallbackBlocks ==
  IF sfallback # Pending /\ sfallback.ok
    THEN [i \in DOMAIN sfallback.blocks |-> LinkBlock(sfallback.blocks[i], <<>>, <<>>)]
    ELSE <<>>

HasId(b) == b.slug # NoSlug

IdsOf(blocks) == {blocks[i].slug : i \in {j \in DOMAIN blocks : HasId(blocks[j])}}

\* The first block with the id.
FirstWith(blocks, id) == Least({i \in DOMAIN blocks : blocks[i].slug = id})

\* The blocks search built its answer from.
SearchBlocks == IF IdsOf(ChannelBlocks) # {} THEN ChannelBlocks ELSE FallbackBlocks

\* The cards of the homepage that hold a title link.
LatestCards ==
  IF lpage # Pending /\ lpage.ok
    THEN SelectSeq(lpage.blocks, LAMBDA c : c.link)
    ELSE <<>>

NoDuplicateId(list) ==
  \A i, j \in DOMAIN list : i # j => list[i].id # list[j].id

\* One entity for every id of the blocks, in the order of first
\* appearance of the ids.
FirstKept(list, blocks) ==
  /\ {list[i].id : i \in DOMAIN list} = IdsOf(blocks)
  /\ \A i, j \in DOMAIN list :
       i < j => FirstWith(blocks, list[i].id) < FirstWith(blocks, list[j].id)

\* C12: a response of search or getLatestEpisodes holds no two entities
\* with the same id; it holds one entity for every id found, in order of
\* first appearance, built from the first block with that id.
C12_NoDuplicateIds ==
  /\ spc = "done" =>
       /\ NoDuplicateId(sresult)
       /\ FirstKept(sresult, SearchBlocks)
       /\ \A i \in DOMAIN sresult :
            sresult[i].title =
              DecodeEntities(BlockTitle(SearchBlocks[FirstWith(SearchBlocks, sresult[i].id)]))
  /\ lpc = "done" =>
       /\ NoDuplicateId(lresult.list)
       /\ FirstKept(lresult.list, LatestCards)
       /\ \A i \in DOMAIN lresult.list :
            lresult.list[i] =
              LatestEntry(LatestCards[FirstWith(LatestCards, lresult.list[i].id)])

C12_Witness ==
  /\ spc = "done"
  /\ Len(sresult) = 2
  /\ Len(ChannelBlocks) = 4
  /\ ChannelBlocks[1].slug = ChannelBlocks[3].slug
  /\ BlockTitle(ChannelBlocks[1]) # BlockTitle(ChannelBlocks[3])
  /\ sresult[2].id = ChannelBlocks[4].slug

\* C17: no entity of search or getLatestEpisodes has an empty title; a
\* block without heading and without link text gets the humanized id.
C17_NoEmptyTitle ==
  /\ spc = "done" =>
       \A i \in DOMAIN sresult :
         /\ sresult[i].title # <<>>
         /\ LET b == SearchBlocks[FirstWith(SearchBlocks, sresult[i].id)]
            IN  (b.h3 = <<>> /\ b.text = <<>>) =>
                  sresult[i].title = Humanize(sresult[i].id)
  /\ lpc = "done" =>
       \A i \in DOMAIN lresult.list : lresult.list[i].title # <<>>

(***************************************************************************)
(* Claims about search                                                     *)
(***************************************************************************)
\* The position of a channel in the fixed channel order.
ChannelRank(c) == IF c = 3 THEN 1 ELSE 2

\* The channel an entity of the primary search comes from: the first, in
\* the fixed order, whose page holds its id.
ChannelOf(id) == IF id \in IdsOf(ChannelHtml(schan[3])) THEN 3 ELSE 2

PrimaryDone == spc \in {"fallback", "done"} /\ IdsOf(ChannelBlocks) # {}

\* C19: both channel requests are issued before any answer; the list is
\* the entities of channel 3 followed by those of channel 2, whatever the
\* order of arrival, and an id of both channels is kept from channel 3.
C19_ChannelOrder ==
  /\ spc = "channels" =>
       /\ Len(srequests) = 2
       /\ srequests[1].asid = 3
       /\ srequests[2].asid = 2
  /\ Len(sarrived) > 0 => Len(srequests) >= 2
  /\ PrimaryDone =>
       /\ \A i, j \in DOMAIN sresult :
            i < j => ChannelRank(ChannelOf(sresult[i].id))
                       <= ChannelRank(ChannelOf(sresult[j].id))
       /\ \A i \in DOMAIN sresult :
            LET page == ChannelHtml(schan[ChannelOf(sresult[i].id)])
            IN  sresult[i].title =
                  DecodeEntities(BlockTitle(page[FirstWith(page, sresult[i].id)]))

C19_Witness ==
  /\ spc = "done"
  /\ sarrived = <<2, 3>>
  /\ Len(sresult) = 2
  /\ ChannelOf(sresult[1].id) = 3
  /\ ChannelOf(sresult[2].id) = 2
  /\ sresult[1].id \in IdsOf(ChannelHtml(schan[2]))
  /\ BlockTitle(ChannelHtml(schan[2])[FirstWith(ChannelHtml(schan[2]), sresult[1].id)])
       # BlockTitle(ChannelHtml(schan[3])[FirstWith(ChannelHtml(schan[3]), sresult[1].id)])

FallbackRequested == [req |-> "fallback"] \in Range(srequests)

\* C20: the fallback request is issued exactly when both channels are
\* settled and gave no entity; every entity of the fallback has an empty
\* cover, no year and the humanized id as title.
C20_FallbackIffEmpty ==
  /\ FallbackRequested <=>
       (spc \in {"fallback", "done"} /\ IdsOf(ChannelBlocks) = {})
  /\ (spc = "done" /\ FallbackRequested) =>
       /\ {sresult[i].id : i \in DOMAIN sresult} = IdsOf(FallbackBlocks)
       /\ \A i \in DOMAIN sresult :
            /\ sresult[i].cover = ""
            /\ sresult[i].year = None
            /\ sresult[i].title = Humanize(sresult[i].id)

C20_Witness ==
  /\ spc = "done"
  /\ FallbackRequested
  /\ ~schan[3].ok
  /\ ~schan[2].ok
  /\ Len(sresult) = 2

(***************************************************************************)
(* Claims about the page operations                                        *)
(***************************************************************************)
\* C14: when the page request fails (a non-2xx status or a network error),
\* getEpisodes and getVideoUrl end in an error; search (after the fallback
\* request) and getLatestEpisodes return an empty list, getAnimeInfo
\* returns null, and none of these three ends in an error.
C14_TransportFailure ==
  /\ (epc = "done" /\ ~epage.ok) => eresult.kind = "error"
  /\ (vpc = "done" /\ vtried = <<>>) => vresult.kind = "error"
  /\ (spc \in {"fallback", "done"} /\ ~schan[3].ok /\ ~schan[2].ok) =>
       FallbackRequested
  /\ (spc = "done" /\ ~schan[3].ok /\ ~schan[2].ok /\ ~sfallback.ok) =>
       sresult = <<>>
  /\ (lpc = "done" /\ ~lpage.ok) => lresult = [kind |-> "ok", list |-> <<>>]
  /\ (ipc = "done" /\ ~ipage.ok) => iresult = [kind |-> "null"]
  /\ lpc = "done" => lresult.kind # "error"
  /\ ipc = "done" => iresult.kind # "error"

C14_Witness ==
  /\ spc = "done"
  /\ schan[3] # schan[2]
  /\ ~schan[3].ok
  /\ ~schan[2].ok
  /\ ~sfallback.ok
  /\ sresult = <<>>

(***************************************************************************)
(* Claims about handleAction                                               *)
(***************************************************************************)
\* The entities of the answer the page received.
Returned == IF apc = "done" /\ aresp.success THEN Range(aresp.data) ELSE {}

C15_RejectsUnknown ==
  (apc = "done" /\ areq.action # "ping") =>
    /\ SourceNameOf(areq) # "voiranime" =>
         /\ ~aresp.success
         /\ SourceNameOf(areq) \in aresp.error.names
         /\ ainvoked = <<>>
    /\ (SourceNameOf(areq) = "voiranime" /\ areq.action \notin KnownActions) =>
         /\ ~aresp.success
         /\ areq.action \in aresp.error.names
         /\ ainvoked = <<>>

(***************************************************************************)
(* Claims about _extractEpisodeNumber                                      *)
(***************************************************************************)
\* The numbers of the text that immediately precede a language marker.
BeforeMarker(text) ==
  {text[i].v : i \in {j \in 1..Len(text) - 1 : IsNum(text[j]) /\ text[j + 1] = Marker}}

\* Those of them that follow a dash.
DashBeforeMarker(text) ==
  {text[i + 1].v :
     i \in {j \in 1..Len(text) - 2 :
              text[j] = Dash /\ IsNum(text[j + 1]) /\ text[j + 2] = Marker}}

\* The numbers of the href that immediately precede its marker part.
HrefBeforeMarker(href) ==
  {href[i].v : i \in {j \in 2..Len(href) - 1 : IsNum(href[j]) /\ href[j + 1] = Marker}}

NumbersOf(text) == {i \in DOMAIN text : IsNum(text[i])}

\* The last integer of the text, 0 when it has none.
LastNumber(text) ==
  IF NumbersOf(text) = {} THEN 0 ELSE text[Greatest(NumbersOf(text))].v

RECURSIVE Normalized(_)
Normalized(s) ==
  IF s = <<>> THEN <<>>
  ELSE LET c == IF Head(s) = "A" THEN "a" ELSE IF Head(s) = "B" THEN "b" ELSE Head(s)
       IN  IF c = " " THEN Normalized(Tail(s)) ELSE <<c>> \o Normalized(Tail(s))

\* The item has a title (main, English or synonym) equal to the query once
\* both are normalised.
ExactMatch(item, query) ==
  \E t \in {item.title, item.english} \cup Range(item.synonyms) :
    t # <<>> /\ Normalized(t) = Normalized(query)

SourceRank(src) == CHOOSE i \in DOMAIN TermSources : TermSources[i] = src

\* The call has ended at line 757: a term yielded a cover.
Yielded == cpc = "done" /\ clog # <<>> /\ cret # ""

\* C21: the terms of an anime are in the order cleaned title, id, 
\* parenthesised name, trailing name; a lookup tries them in that order, one
\* after the other from the first, asking the API for a term only after its
\* cache lookup; an entry of the history with a cover is the last one (no
\* later term is looked up or requested), and then that cover is returned
\* and stored under the anime's key.
C21_TermOrder ==
  /\ \A a \in Animes : \A i, j \in DOMAIN GetJikanSearchTerms(a) :
       i < j => SourceRank(GetJikanSearchTerms(a)[i].src)
                  < SourceRank(GetJikanSearchTerms(a)[j].src)
  /\ clog # <<>> => clog[1].op = "get" /\ clog[1].term = 1
  /\ \A i \in DOMAIN clog :
       /\ clog[i].term \in 1..cterms
       /\ i > 1 =>
            \/ clog[i].op = "api" /\ clog[i - 1] = Lookup(clog[i].term, "")
            \/ clog[i].op = "get" /\ clog[i].term = clog[i - 1].term + 1
       /\ clog[i].cover # "" =>
            /\ i = Len(clog)
            /\ cpc = "done"
            /\ cret = clog[i].cover
            /\ cmem[AnimeKey] = Entry(AnimeKey, cret, cendAt)
  /\ Yielded => clog[Len(clog)].cover = cret

C21_Witness ==
  /\ Yielded
  /\ canime = Anime("own", TRUE, TRUE)
  /\ clog[Len(clog)] = ApiCall(2, cret)
  /\ Len(clog) = 4

\* The call has ended at line 761: every term was tried, none yielded a cover.
Exhausted == cpc = "done" /\ clog # <<>> /\ cret = ""

\* The current call began less than COVER_ERROR_TTL after the previous call
\* of the same anime ended with every term exhausted.
RepeatedInTtl ==
  /\ cpc # "idle"
  /\ cprev.exhausted
  /\ cprev.startAt - cprev.endAt < COVER_ERROR_TTL

\* C22: when a lookup has ended with every term yielding no cover, an
\* empty-valued entry stamped with that time is stored under the anime's
\* key; a lookup of the same anime begun less than COVER_ERROR_TTL later
\* returns an empty cover at once, with no cache lookup of a term, no
\* admission and no API request.
C22_NegativeEntry ==
  /\ Exhausted => cmem[AnimeKey] = Entry(AnimeKey, "", cendAt)
  /\ RepeatedInTtl => cpc = "done" /\ cret = "" /\ clog = <<>>

C22_Witness ==
  /\ RepeatedInTtl
  /\ cprev.startAt > cprev.endAt
  /\ cpc = "done"
  /\ cret = ""

(***************************************************************************)
(* Claims about the release of the gate                                    *)
(***************************************************************************)
\* Every call has returned.
AllReturned == \A p \in Callers : gpc[p] \in {"done", "cached"}

\* C23: a call admitted by the gate releases exactly once when its request
\* completes, whatever the outcome, and a call answered from the cache is
\* never admitted and never releases; _jikanInFlight is never negative, is
\* the number of calls admitted and not yet completed, and is 0 once every
\* call has returned.
C23_ReleaseOnce ==
  /\ \A p \in Callers :
       /\ gpc[p] = "done" => gacq[p] = 1 /\ grel[p] = 1
       /\ gpc[p] = "holding" => gacq[p] = 1 /\ grel[p] = 0
       /\ gpc[p] \notin {"done", "holding"} => gacq[p] = 0 /\ grel[p] = 0
  /\ jikanInFlight >= 0
  /\ jikanInFlight = Cardinality(Holders)
  /\ AllReturned => jikanInFlight = 0

C23_Witness ==
  /\ AllReturned
  /\ jikanInFlight = 0
  /\ Cardinality({p \in Callers : grel[p] = 1}) >= JIKAN_CONCURRENCY
  /\ \E p \in Callers : gpc[p] = "cached"

(***************************************************************************)
(* Claims about the progress of the gate                                   *)
(***************************************************************************)
\* The caller is inside _jikanAcquire, on one of its timers.
Waiting(p) == gpc[p] \in {"poll", "spacing"}

\* No caller enters _jikanAcquire in this step.
NoNewRequest == \A q \in Callers : ~AcquireCall(q)

\* C28 as stated: when timers fire and admitted calls complete, every
\* caller waiting in _jikanAcquire is eventually admitted.
C28_Original == \A p \in Callers : Waiting(p) ~> (gpc[p] = "holding")

\* C28 as amended: when timers fire and admitted calls complete, and from
\* some point on no new call enters _jikanAcquire, every caller waiting
\* in _jikanAcquire is eventually admitted.
C28_EventuallyGranted ==
  <>[][NoNewRequest]_vars => \A p \in Callers : Waiting(p) ~> (gpc[p] = "holding")

\* A caller waits on the poll timer with JIKAN_CONCURRENCY calls in flight.
C28_Witness ==
  \E p \in Callers :
    /\ gpc[p] = "poll"
    /\ gacq[p] = 0
    /\ jikanInFlight = JIKAN_CONCURRENCY
    /\ \A q \in Callers \ {p} : gpc[q] = "holding"

(***************************************************************************)
(* Claims about the read path of the cover cache                           *)
(***************************************************************************)
\* The entry is stored and past its TTL.
Expired(e) == e # NoEntry /\ ~Fresh(e)

\* The entry is stored and within its TTL after the step.
FreshAfter(e) == e # NoEntry /\ now' - e.at < TtlOf(e)

\* C24: a read looks at the fast tier first and returns an unexpired entry
\* of it without going to the durable tier; when the fast tier has no
\* unexpired entry the read goes to the durable tier, and an entry it
\* returns from there is unexpired and is in the fast tier, unexpired, when
\* the read returns.
C24_ReadPath ==
  [][\A r \in Readers :
       /\ \A k \in Keys :
            CacheGetStart(r, k) =>
              /\ Fresh(memCache[k]) =>
                   rpc'[r] = "done" /\ rret'[r] = memCache[k]
              /\ ~Fresh(memCache[k]) => rpc'[r] = "db"
       /\ CacheGetDb(r) =>
            /\ rret'[r] # NoEntry =>
                 /\ rret'[r] = db[rkey[r]]
                 /\ Fresh(rret'[r])
                 /\ memCache'[rkey[r]] = rret'[r]
                 /\ FreshAfter(memCache'[rkey[r]])
            /\ UNCHANGED db]_vars

\* After a restart a read has returned the durable entry of a key that was
\* not written since, and the fast tier holds it.
C24_Witness ==
  \E r \in Readers :
    /\ rpc[r] = "done"
    /\ rret[r] # NoEntry
    /\ ~written[rkey[r]]
    /\ memCache[rkey[r]] = rret[r]
    /\ db[rkey[r]] = rret[r]

\* C25: a read that finds in the fast tier an entry past its TTL leaves the
\* cache without it: when the read returns, the fast tier holds no expired
\* entry under the key.
C25_LazyEviction ==
  [][\A r \in Readers :
       (CacheGetDb(r) /\ Expired(memCache[rkey[r]])) =>
         ~Expired(memCache'[rkey[r]])]_vars

(***************************************************************************)
(* Claims about the search cache and the covers                            *)
(***************************************************************************)
\* The search cache holds, within SEARCH_CACHE_TTL, the list of a search of
\* the source.
CachedInTtl(name) ==
  /\ name \in SearchKeys
  /\ searchCache[name] # NoEntry
  /\ now - searchCache[name].at <= SEARCH_CACHE_TTL

\* Enrichment has resolved a cover for the entity id of the list the search
\* cache holds for the source.
CoverResolved(name, id) ==
  \E patch \in apushed :
    patch.by = name /\ patch.id = id /\ patch.at = searchCache[name].at

\* C26: a search request for a (source, query) whose list is in the search
\* cache within SEARCH_CACHE_TTL is answered with that list, in which every
\* entry enrichment has resolved a cover for carries the cover; the
\* source's search is not called and no enrichment is started.
C26_PatchedInCache ==
  [][\A req \in Messages :
       (/\ HandleAction(req)
        /\ req.action = "search"
        /\ CachedInTtl(SourceNameOf(req))) =>
         /\ ainvoked' = <<>>
         /\ aenrich' = aenrich
         /\ aresp'.success
         /\ Len(aresp'.data) = Len(searchCache[SourceNameOf(req)].results)
         /\ \A i \in DOMAIN aresp'.data :
              /\ aresp'.data[i].id = searchCache[SourceNameOf(req)].results[i].id
              /\ CoverResolved(SourceNameOf(req), aresp'.data[i].id) =>
                   aresp'.data[i].cover = "img"]_vars

\* A search has been answered from the cache with an entry whose cover
\* enrichment resolved after the first answer.
C26_Witness ==
  /\ apc = "done"
  /\ areq.action = "search"
  /\ ainvoked = <<>>
  /\ aresp.success
  /\ anreq = 2
  /\ \E i \in DOMAIN aresp.data :
       aresp.data[i].cover = "img" /\ CoverResolved(SourceNameOf(areq), aresp.data[i].id)

\* The normalised title n stands in a substring relation with q without
\* being equal to it (line 1142), and the share of the longer the shorter
\* covers.
Contains(q, n) ==
  /\ n # q
  /\ Includes(IF Len(q) > Len(n) THEN q ELSE n, IF Len(q) <= Len(n) THEN q ELSE n)

ContainmentCandidate(item, query) ==
  \E j \in DOMAIN TitlesOf(item) : Contains(Norm(query), Norm(TitlesOf(item)[j]))

\* Containment in which the shorter string is at least half the longer.
CloseContainment(item, query) ==
  \E j \in DOMAIN TitlesOf(item) :
    LET n == Norm(TitlesOf(item)[j]) IN
      /\ Contains(Norm(query), n)
      /\ 2 * (IF Len(Norm(query)) <= Len(n) THEN Len(Norm(query)) ELSE Len(n))
           >= (IF Len(Norm(query)) > Len(n) THEN Len(Norm(query)) ELSE Len(n))

\* No title of the item equals or contains the query or is contained in
\* it; some title starts like the query.
PrefixOnly(item, query) ==
  /\ ~ExactMatch(item, query)
  /\ ~ContainmentCandidate(item, query)
  /\ \E j \in DOMAIN TitlesOf(item) :
       CommonPrefix(Norm(query), Norm(TitlesOf(item)[j])) > 0

NoExact == \A k \in DOMAIN bitems : ~ExactMatch(bitems[k], bquery)

Delivered == {<<b, i>> : b \in DOMAIN nbatches, i \in 1..MaxResults}

TimesDelivered(r) ==
  Cardinality({d \in Delivered :
                 d[2] \in DOMAIN nbatches[d[1]] /\ nbatches[d[1]][d[2]].id = r})

\* C29: over a run of enrichCoversAsync no onUpdate call receives an empty
\* batch, none happens after the call has completed, a result is never
\* delivered twice nor with another cover than its lookup returned, a
\* result without cover is never delivered, and once the call has completed
\* every result with a cover has been delivered exactly once to the
\* callback that was passed.
C29_EachCoverOnce ==
  /\ \A b \in DOMAIN nbatches : nbatches[b] # <<>>
  /\ ~nlate
  /\ npc = "done" => ~timerArmed
  /\ ~nonUpdate => nbatches = <<>>
  /\ \A b \in DOMAIN nbatches : \A i \in DOMAIN nbatches[b] :
       /\ nbatches[b][i].id \in DOMAIN ncover
       /\ nbatches[b][i].cover = ncover[nbatches[b][i].id]
       /\ nbatches[b][i].cover \notin {"", "wait"}
  /\ \A r \in DOMAIN ncover : TimesDelivered(r) <= 1
  /\ (npc = "done" /\ nonUpdate) =>
       \A r \in DOMAIN ncover : TimesDelivered(r) = (IF ncover[r] # "" THEN 1 ELSE 0)

\* A completed run with a debounced batch, a final flush and a result
\* without cover.
C29_Witness ==
  /\ npc = "done"
  /\ nonUpdate
  /\ Len(nbatches) = 2
  /\ \E r \in DOMAIN ncover : ncover[r] = ""
  /\ Cardinality({r \in DOMAIN ncover : ncover[r] \notin {"", "wait"}}) = 2

\* The relay is through with the id: its request was dispatched and the
\* callback of sendMessage has run.
RelayDone(id) ==
  /\ id \notin relayed
  /\ \A i \in DOMAIN wqueue : wqueue[i] # RequestMessage(id)

\* C30: an id gets at most one response, and exactly one once the relay is
\* through with it; responses carry ids of requests only; a promise is
\* settled at most once, exactly once when it is no longer waiting, by the
\* response carrying its own id or by its timer; a promise rejected by its
\* timer stays settled by it whatever is dispatched later.
C30_Correlation ==
  /\ \A u \in Uuids :
       /\ nresp[u] <= 1
       /\ nresp[u] = 1 => \E r \in Requests : qid[r] = u
       /\ nresp[u] = 1 <=> ((\E r \in Requests : qid[r] = u) /\ RelayDone(u))
  /\ \A i \in DOMAIN wqueue :
       wqueue[i].type = "ANIME_EXT_RESPONSE" => \E r \in Requests : qid[r] = wqueue[i].id
  /\ \A r \in Requests :
       /\ qsettled[r] <= 1
       /\ qpc[r] \in {"idle", "waiting"} <=> qsettled[r] = 0
       /\ qpc[r] \in {"resolved", "rejected"} => (qby[r] = qid[r] /\ qid[r] \in wseen)
       /\ qpc[r] = "timedout" => qby[r] = 0
  /\ \A r, q \in Requests : (r # q /\ qid[r] # 0) => qid[r] # qid[q]

\* Two requests were in flight together; one was rejected by its timer and
\* its response was dispatched afterwards, the other was settled by its
\* own response.
C30_Witness ==
  \E r, q \in Requests :
    /\ qpc[r] = "timedout"
    /\ qid[r] \in wseen
    /\ qpc[q] \in {"resolved", "rejected"}
    /\ qby[q] = qid[q]
====
